---- MODULE Spec2Model ----
(***************************************************************************)
(* A model of the nerfmeshes research pipeline: the on-disk ray cache of   *)
(* CachingDataset / BlenderDataset, the pooled COLMAP / LLFF datasets,     *)
(* ScanNetDataset and get_rays (src/src/data/datasets.py), the             *)
(* configuration flatten / nest helpers, the forward pass and the training *)
(* and validation steps of NeRFModel (src/src/model_nerf.py),              *)
(* get_ray_batch (src/src/model_nerf.py), SimpleModel and                  *)
(* SpecularSimpleModel (src/src/nerf/models.py), and the mesh extraction   *)
(* tool with its colour query and .obj writer (src/src/mesh_nerf.py).      *)
(*                                                                         *)
(* Each subsystem has its own variables and its own specification          *)
(* (SpecCache, SpecPool, SpecCfg, SpecFwd, SpecMesh, SpecObj,              *)
(* SpecSpecular, SpecStep, SpecScan, SpecRays, SpecColour, SpecSimple,     *)
(* SpecBatch); a specification leaves the variables of the other           *)
(* subsystems unchanged.                                                   *)
(***************************************************************************)
EXTENDS Integers, Sequences, FiniteSets, TLC

(***************************************************************************)
(* Bounds of the model.                                                    *)
(***************************************************************************)
MaxImages == 1       \* images per split in the source data: 0..MaxImages
MaxVariations == 2   \* dataset.caching.num_variations ranges over 1..MaxVariations
MaxConstructs == 2   \* dataset constructions in one behaviour

(***************************************************************************)
(* Generic helpers.                                                        *)
(***************************************************************************)
Min(a, b) == IF a < b THEN a ELSE b
Max(a, b) == IF a < b THEN b ELSE a
Range(s) == {s[i] : i \in DOMAIN s}
Remove(s, i) == SubSeq(s, 1, i - 1) \o SubSeq(s, i + 1, Len(s))

\* Python's s[a:b] on a sequence (0-based, bounds clamped, never raises).
Slice(s, a, b) ==
    LET lo == Min(Max(a, 0), Len(s))
        hi == Min(Max(b, 0), Len(s))
    IN IF hi <= lo THEN <<>> ELSE SubSeq(s, lo + 1, hi)

(***************************************************************************)
(* The ambient random source (np.random): a generator with a global state, *)
(* which other code may advance between two operations: an operation takes *)
(* the state it finds as an input.  A draw without replacement of r        *)
(* elements of avail is decoded from the generator state; every call       *)
(* advances the state.                                                     *)
(***************************************************************************)
RECURSIVE Draw(_, _, _)
Draw(code, avail, r) ==
    IF r = 0 \/ Len(avail) = 0 THEN <<>>
    ELSE LET i == (code % Len(avail)) + 1
         IN <<avail[i]>> \o Draw(code \div Len(avail), Remove(avail, i), r - 1)

NextRng(r) == r + 1

(***************************************************************************)
(* str(n) and str(n).zfill(4) for n >= 0.                                  *)
(***************************************************************************)
DigitChar == <<"0", "1", "2", "3", "4", "5", "6", "7", "8", "9">>

RECURSIVE Str(_)
Str(n) == IF n < 10 THEN DigitChar[n + 1] ELSE Str(n \div 10) \o DigitChar[(n % 10) + 1]

RECURSIVE ZPad(_, _)
ZPad(s, width) == IF Len(s) >= width THEN s ELSE ZPad("0" \o s, width)

ZFill4(n) == ZPad(Str(n), 4)

(***************************************************************************)
(* DatasetType and the tensors of a ray bundle.                            *)
(*                                                                         *)
(* A tensor is a record [shape, at]: shape "HW" is a per-pixel grid of one *)
(* image, flattened in the order of the coords table; shape "N" is a list  *)
(* of rays.  The elements are symbolic values naming the ray they belong   *)
(* to: <<kind, split, image, h, w>>.                                       *)
(***************************************************************************)
DatasetTypeValues == {"train", "test", "val"}
VALIDATION == "val"

\* What a caller may pass as `type`: a DatasetType member or a bare string.
TypeArgs ==
    {[enum |-> TRUE, value |-> s] : s \in DatasetTypeValues}
        \cup {[enum |-> FALSE, value |-> s] : s \in {"train", "val"}}

\* init_sampling: coords is the (H*W, 2) table of (row, column) pairs.
Coords(hwf) ==
    [k \in 1..(hwf[1] * hwf[2]) |-> <<(k - 1) % hwf[1], (k - 1) \div hwf[1]>>]

PixIndex(hwf, px) == px[2] * hwf[1] + px[1] + 1

GridTensor(kind, split, img, hwf) ==
    [shape |-> "HW",
     at |-> [k \in 1..(hwf[1] * hwf[2]) |->
                <<kind, split, img, Coords(hwf)[k][1], Coords(hwf)[k][2]>>]]

\* get_ray_bundle: every pixel of an image shares the origin of its pose.
OriginTensor(split, img, hwf) ==
    [shape |-> "HW",
     at |-> [k \in 1..(hwf[1] * hwf[2]) |-> <<"o", split, img, 0, 0>>]]

\* load_blender_data: images, poses and hwf of a split.
\* The modelled source images are two rows of one pixel.
SourceHwf == <<2, 1, "focal">>

\* The generator states an operation may find: enough to decode every draw of
\* one pixel and both orders of two.
Seeds == 0..(SourceHwf[1] * SourceHwf[2] - 1)

\* nerf.train.num_random_rays: a proper subset of the pixels of an image.
RayCounts == 1..(SourceHwf[1] * SourceHwf[2] - 1)
SourceImage(split, img) == GridTensor("rgba", split, img, SourceHwf)

\* images * images[..., -1:] + (1.0 - images[..., -1:])
WhiteComposite(t) ==
    [shape |-> t.shape,
     at |-> [k \in DOMAIN t.at |-> <<"white", t.at[k][2], t.at[k][3], t.at[k][4], t.at[k][5]>>]]

GetRayBundle(split, img, hwf) ==
    <<OriginTensor(split, img, hwf), GridTensor("d", split, img, hwf)>>

(***************************************************************************)
(* batch_random_sampling(cfg, coords, (ray_directions, ray_targets)):      *)
(* draws num_random_rays rows of coords without replacement and gathers    *)
(* tensor[row, column] for each tensor of the pair.  The gather is defined *)
(* on per-pixel grids; on a tensor that is no (H, W, ...) grid it fails.   *)
(***************************************************************************)
SamplerSel(r, hwf, nrays) == Draw(r, Coords(hwf), nrays)

Gather(t, hwf, sel) ==
    [shape |-> "N", at |-> [k \in 1..Len(sel) |-> t.at[PixIndex(hwf, sel[k])]]]

BatchRandomSampling(r, hwf, nrays, dirs, targets) ==
    IF dirs.shape = "HW" /\ targets.shape = "HW"
           /\ Len(dirs.at) = hwf[1] * hwf[2] /\ Len(targets.at) = hwf[1] * hwf[2]
    THEN [ok |-> TRUE, sel |-> SamplerSel(r, hwf, nrays),
          dirs |-> Gather(dirs, hwf, SamplerSel(r, hwf, nrays)),
          targets |-> Gather(targets, hwf, SamplerSel(r, hwf, nrays))]
    ELSE [ok |-> FALSE, sel |-> <<>>, dirs |-> dirs, targets |-> targets]

(***************************************************************************)
(* State of the ray cache subsystem.                                       *)
(***************************************************************************)
VARIABLES
    cache_dir_exists,   \* os.path.exists(cfg.dataset.caching.cache_dir)
    split_dirs,         \* the split directories <cache_dir>/<split> that exist
    files,              \* files[split]: the directory listing, a sequence of
                        \* [name, hwf, ray_bundle] in creation order
    ds,                 \* the dataset object constructed last
    item,               \* what the last __getitem__ returned or raised
    nconstruct          \* constructions so far

cacheVars == <<cache_dir_exists, split_dirs, files, ds, item, nconstruct>>

\* cfg as CachingDataset reads it; nimg stands for dataset.basedir, the source
\* data the configuration points at.
\* A field the selected mode never reads is left at one value.
CachingCfgs ==
    [use_caching : {TRUE}, override_caching : BOOLEAN, sample_all : BOOLEAN,
     num_variations : 1..MaxVariations, num_random_rays : RayCounts,
     white_background : {FALSE}, nimg : 0..MaxImages]

DirectCfgs ==
    [use_caching : {FALSE}, override_caching : {FALSE}, sample_all : {FALSE},
     num_variations : {1}, num_random_rays : RayCounts,
     white_background : BOOLEAN, nimg : 0..MaxImages]

Cfgs == CachingCfgs \cup DirectCfgs

NoDataset ==
    [state |-> "none", exc |-> "", type |-> "", use_caching |-> FALSE,
     num_random_rays |-> 0, paths |-> <<>>, hwf |-> <<>>,
     ray_origins |-> <<>>, ray_directions |-> <<>>, ray_targets |-> <<>>,
     pre_cache_dir |-> FALSE, pre_split_dir |-> FALSE, cached |-> FALSE,
     enumerated |-> FALSE, dir_at_glob |-> FALSE, written |-> <<>>]

NoItem ==
    [status |-> "none", idx |-> 0, path |-> "", sampled |-> FALSE, sel |-> <<>>,
     stored |-> <<>>, ray_origins |-> <<>>, ray_directions |-> <<>>, ray_targets |-> <<>>]

(***************************************************************************)
(* The file system under cache_dir.                                        *)
(***************************************************************************)
FileIndex(dir, name) ==
    IF \E i \in DOMAIN dir : dir[i].name = name
    THEN CHOOSE i \in DOMAIN dir : dir[i].name = name
    ELSE 0

\* torch.save(obj, path) into an existing directory: creates or overwrites.
WriteFile(dir, name, hwf, bundle) ==
    LET rec == [name |-> name, hwf |-> hwf, ray_bundle |-> bundle]
        i == FileIndex(dir, name)
    IN IF i = 0 THEN Append(dir, rec) ELSE [dir EXCEPT ![i] = rec]

Reverse(s) == [i \in 1..Len(s) |-> s[Len(s) + 1 - i]]

\* glob.glob(<cache_dir>/<split>/*.data): the names of the directory, in an order
\* the file system chooses (here: the listing order or its reverse); empty when
\* the directory does not exist.
GlobOrders(dir) ==
    LET names == [i \in 1..Len(dir) |-> dir[i].name]
    IN {names, Reverse(names)}

(***************************************************************************)
(* CachingDataset.save_dataset                                             *)
(***************************************************************************)
\* A faulty variant: the variation index is left out of the file name.
SavePathNoBatch(img_idx, batch_idx) == ZFill4(img_idx) \o ".data"

SavePath(img_idx, batch_idx) ==
    IF batch_idx /= -1
    THEN ZFill4(img_idx) \o ZFill4(batch_idx) \o ".data"
    ELSE ZFill4(img_idx) \o ".data"

\* Returns the directory listing after the save; the caller has checked that the
\* split directory exists (torch.save raises FileNotFoundError otherwise).
SaveDataset(dir, hwf, ray_bundle, img_idx, batch_idx) ==
    WriteFile(dir, SavePath(img_idx, batch_idx), hwf, ray_bundle)

(***************************************************************************)
(* BlenderDataset.cache_dataset: the loop over the images of the split.    *)
(* st is [dir, rng, written, ok]; written lists the save_dataset calls.    *)
(***************************************************************************)
SavesFullImage(c, type) == c.sample_all \/ type = VALIDATION

RECURSIVE CacheVariations(_, _, _, _, _)
CacheVariations(st, c, type, img_idx, batch_idx) ==
    IF batch_idx >= c.num_variations THEN st
    ELSE LET rb == GetRayBundle(type, img_idx, SourceHwf)
             s == BatchRandomSampling(st.rng, SourceHwf, c.num_random_rays,
                                      rb[2], SourceImage(type, img_idx))
             bundle == <<rb[1], s.dirs, s.targets>>
         IN CacheVariations(
                [st EXCEPT !.dir = SaveDataset(st.dir, SourceHwf, bundle, img_idx, batch_idx),
                           !.rng = NextRng(st.rng),
                           !.written = Append(st.written,
                               [img_idx |-> img_idx, batch_idx |-> batch_idx,
                                hwf |-> SourceHwf, ray_bundle |-> bundle])],
                c, type, img_idx, batch_idx + 1)

RECURSIVE CacheImages(_, _, _, _, _)
CacheImages(st, c, type, img_idx, stop) ==
    IF img_idx >= stop THEN st
    ELSE LET rb == GetRayBundle(type, img_idx, SourceHwf)
             bundle == <<rb[1], rb[2], SourceImage(type, img_idx)>>
         IN IF SavesFullImage(c, type)
            THEN CacheImages(
                     [st EXCEPT !.dir = SaveDataset(st.dir, SourceHwf, bundle, img_idx, -1),
                                !.written = Append(st.written,
                                    [img_idx |-> img_idx, batch_idx |-> -1,
                                     hwf |-> SourceHwf, ray_bundle |-> bundle])],
                     c, type, img_idx + 1, stop)
            ELSE CacheImages(CacheVariations(st, c, type, img_idx, 0),
                             c, type, img_idx + 1, stop)

\* The whole pass.  The first save into a missing split directory raises
\* FileNotFoundError; a pass over no images saves nothing.
CacheDataset(dir, r, c, type, dir_exists) ==
    IF c.nimg > 0 /\ ~dir_exists
    THEN [dir |-> dir, rng |-> r, written |-> <<>>, ok |-> FALSE]
    ELSE CacheImages([dir |-> dir, rng |-> r, written |-> <<>>, ok |-> TRUE],
                     c, type, 0, c.nimg)

(***************************************************************************)
(* BlenderDataset.load_dataset (direct mode).                              *)
(***************************************************************************)
LoadTargets(c, type) ==
    [i \in 1..c.nimg |->
        IF c.white_background THEN WhiteComposite(SourceImage(type, i - 1))
        ELSE SourceImage(type, i - 1)]

\* np.random.shuffle(np.arange(n)): a permutation of the image positions.
ShuffledIndices(r, n) == Draw(r, [i \in 1..n |-> i], n)

LoadDataset(r, c, type) ==
    LET perm == ShuffledIndices(r, c.nimg)
    IN [ray_targets |-> [k \in 1..c.nimg |-> LoadTargets(c, type)[perm[k]]],
        ray_directions |-> [k \in 1..c.nimg |-> GetRayBundle(type, perm[k] - 1, SourceHwf)[2]],
        ray_origins |-> [k \in 1..c.nimg |-> GetRayBundle(type, perm[k] - 1, SourceHwf)[1]]]

(***************************************************************************)
(* CachingDataset.__init__                                                 *)
(***************************************************************************)
\* assert type in DatasetType.__members__.values(): a bare string equals no member.
TypeAccepted(targ) == targ.enum

\* cache_dir_exists = os.path.exists(cache_dir): the parent directory is tested,
\* not <cache_dir>/<split>.
CacheDirCheck(dir_exists, dirs, type) == dir_exists

\* if override_caching or not cache_dir_exists: self.cache_dataset()
NeedsCaching(c, existed) == c.override_caching \/ ~existed

FailedDataset(exc, type, c, pre_cache, pre_split, cached, enumerated, at_glob) ==
    [NoDataset EXCEPT !.state = "failed", !.exc = exc, !.type = type,
                      !.use_caching = c.use_caching,
                      !.num_random_rays = c.num_random_rays,
                      !.pre_cache_dir = pre_cache, !.pre_split_dir = pre_split,
                      !.cached = cached, !.enumerated = enumerated,
                      !.dir_at_glob = at_glob]

ConstructDirect(targ, c) ==
    /\ UNCHANGED <<cache_dir_exists, split_dirs, files>>
    /\ IF c.nimg = 0
       THEN \* torch.stack of an empty list of ray bundles
            ds' = FailedDataset("RuntimeError", targ.value, c, cache_dir_exists,
                                targ.value \in split_dirs, FALSE, FALSE, FALSE)
       ELSE \E rng \in Seeds :
            LET l == LoadDataset(rng, c, targ.value)
            IN    ds' = [NoDataset EXCEPT
                            !.state = "ready", !.type = targ.value,
                            !.use_caching = FALSE,
                            !.num_random_rays = c.num_random_rays,
                            !.hwf = SourceHwf,
                            !.ray_origins = l.ray_origins,
                            !.ray_directions = l.ray_directions,
                            !.ray_targets = l.ray_targets,
                            !.pre_cache_dir = cache_dir_exists,
                            !.pre_split_dir = targ.value \in split_dirs]

ConstructCaching(targ, c) ==
    \E rng \in (IF NeedsCaching(c, CacheDirCheck(cache_dir_exists, split_dirs, targ.value))
                    /\ ~SavesFullImage(c, targ.value)
                 THEN Seeds ELSE {0}) :
    LET type == targ.value
        existed == CacheDirCheck(cache_dir_exists, split_dirs, type)
        pre_split == type \in split_dirs
        \* os.makedirs(self.path, exist_ok = True) creates cache_dir and the split
        dirs2 == IF ~existed THEN split_dirs \cup {type} ELSE split_dirs
        runs == NeedsCaching(c, existed)
        pass == IF runs
                THEN CacheDataset(files[type], rng, c, type, type \in dirs2)
                ELSE [dir |-> files[type], rng |-> rng, written |-> <<>>, ok |-> TRUE]
    IN /\ cache_dir_exists' = (cache_dir_exists \/ ~existed)
       /\ split_dirs' = dirs2
       /\ files' = [files EXCEPT ![type] = pass.dir]
       /\ IF ~pass.ok
          THEN ds' = FailedDataset("FileNotFoundError", type, c, cache_dir_exists,
                                   pre_split, TRUE, FALSE, FALSE)
          ELSE \E paths \in GlobOrders(pass.dir) :
                  IF paths = <<>>
                  THEN \* self.paths[0] on an empty list
                       ds' = FailedDataset("IndexError", type, c, cache_dir_exists,
                                           pre_split, runs, TRUE, type \in dirs2)
                  ELSE ds' = [NoDataset EXCEPT
                                 !.state = "ready", !.type = type,
                                 !.use_caching = TRUE,
                                 !.num_random_rays = c.num_random_rays,
                                 !.paths = paths,
                                 !.hwf = pass.dir[FileIndex(pass.dir, paths[1])].hwf,
                                 !.pre_cache_dir = cache_dir_exists,
                                 !.pre_split_dir = pre_split,
                                 !.cached = runs, !.enumerated = TRUE,
                                 !.dir_at_glob = type \in dirs2,
                                 !.written = pass.written]

\* The directory after the first k save_dataset calls of a pass.
RECURSIVE SavedFiles(_, _, _)
SavedFiles(dir, written, k) ==
    IF k = 0 THEN dir
    ELSE LET w == written[k]
         IN WriteFile(SavedFiles(dir, written, k - 1),
                      SavePath(w.img_idx, w.batch_idx), w.hwf, w.ray_bundle)

\* A caching-mode construction whose cache_dataset() is cut short: the save
\* after the first k raises (torch.save failing with OSError, say).  Nothing in
\* __init__, cache_dataset or save_dataset catches it or removes a file.  The
\* failure is injected into the first construction of a run, and the sampling
\* of that pass is the one of seed 0.
ConstructInterrupted(targ, c) ==
    /\ nconstruct = 0
    /\ item = NoItem
    /\ TypeAccepted(targ) /\ c.use_caching
    /\ LET type == targ.value
           existed == CacheDirCheck(cache_dir_exists, split_dirs, type)
           dirs2 == IF ~existed THEN split_dirs \cup {type} ELSE split_dirs
       IN /\ NeedsCaching(c, existed)
          /\ type \in dirs2
          /\ LET pass == CacheDataset(files[type], 0, c, type, TRUE)
             IN \E k \in 0..(Len(pass.written) - 1) :
                      /\ files' = [files EXCEPT
                                      ![type] = SavedFiles(files[type], pass.written, k)]
                      /\ ds' = [FailedDataset("OSError", type, c, cache_dir_exists,
                                              type \in split_dirs, TRUE, FALSE, FALSE)
                                   EXCEPT !.written = SubSeq(pass.written, 1, k)]
          /\ cache_dir_exists' = (cache_dir_exists \/ ~existed)
          /\ split_dirs' = dirs2
    /\ nconstruct' = nconstruct + 1
    /\ item' = NoItem

\* A read changes nothing but `item`, and a construction resets `item`: a
\* construction after a read reaches the very states a construction before it
\* reaches, so constructions are explored from the states with no read pending.
Construct(targ, c) ==
    /\ nconstruct < MaxConstructs
    /\ item = NoItem
    /\ nconstruct' = nconstruct + 1
    /\ item' = NoItem
    /\ IF ~TypeAccepted(targ)
       THEN /\ ds' = FailedDataset("AssertionError", targ.value, c, cache_dir_exists,
                                   targ.value \in split_dirs, FALSE, FALSE, FALSE)
            /\ UNCHANGED <<cache_dir_exists, split_dirs, files>>
       ELSE IF c.use_caching THEN ConstructCaching(targ, c) ELSE ConstructDirect(targ, c)

(***************************************************************************)
(* CachingDataset.__len__ and __getitem__                                  *)
(***************************************************************************)
DatasetLen(d) == IF d.use_caching THEN Len(d.paths) ELSE Len(d.ray_directions)

\* A faulty variant: only the training split is sampled.
ShouldSampleTrainOnly(type) == type = "train"

\* if self.type != DatasetType.VALIDATION: batch_random_sampling(...)
ShouldSample(type) == type /= VALIDATION

\* The stored bundle __getitem__ starts from: the file paths[idx] in caching mode,
\* the in-memory tensors otherwise.
StoredBundle(d, fs, idx) ==
    IF d.use_caching
    THEN fs[d.type][FileIndex(fs[d.type], d.paths[idx + 1])].ray_bundle
    ELSE <<d.ray_origins[idx + 1], d.ray_directions[idx + 1], d.ray_targets[idx + 1]>>

GetItem(idx) ==
    /\ ds.state = "ready"
    /\ UNCHANGED <<cache_dir_exists, split_dirs, files, ds, nconstruct>>
    /\ IF idx >= DatasetLen(ds)
       THEN item' = [NoItem EXCEPT !.status = "IndexError", !.idx = idx]
       ELSE LET b == StoredBundle(ds, files, idx)
                path == IF ds.use_caching THEN ds.paths[idx + 1] ELSE ""
            IN IF ShouldSample(ds.type)
               THEN \E rng \in Seeds :
                    LET s == BatchRandomSampling(rng, ds.hwf, ds.num_random_rays, b[2], b[3])
                    IN    item' = IF s.ok
                                  THEN [status |-> "ok", idx |-> idx, path |-> path,
                                        sampled |-> TRUE, sel |-> s.sel, stored |-> b,
                                        ray_origins |-> b[1], ray_directions |-> s.dirs,
                                        ray_targets |-> s.targets]
                                  ELSE [NoItem EXCEPT !.status = "IndexError", !.idx = idx,
                                                      !.path = path, !.sampled = TRUE,
                                                      !.stored = b]
               ELSE    item' = [status |-> "ok", idx |-> idx, path |-> path,
                                sampled |-> FALSE, sel |-> <<>>, stored |-> b,
                                ray_origins |-> b[1], ray_directions |-> b[2],
                                ray_targets |-> b[3]]

InitCache ==
    /\ cache_dir_exists \in BOOLEAN
    /\ split_dirs = {}
    /\ files = [s \in DatasetTypeValues |-> <<>>]
    /\ ds = NoDataset
    /\ item = NoItem
    /\ nconstruct = 0

IdleCache ==
    /\ cache_dir_exists = FALSE
    /\ split_dirs = {}
    /\ files = [s \in DatasetTypeValues |-> <<>>]
    /\ ds = NoDataset
    /\ item = NoItem
    /\ nconstruct = 0


(***************************************************************************)
(* Claims about the ray cache.                                             *)
(***************************************************************************)
ItemTensors == <<item.ray_origins, item.ray_directions, item.ray_targets>>

\* The entries the caching pass of this construction wrote whose file the last
\* read opened.
ReadBackEntries ==
    {w \in Range(ds.written) :
        /\ ds.state = "ready" /\ ds.use_caching
        /\ item.status /= "none" /\ item.idx < DatasetLen(ds)
        /\ item.path = SavePath(w.img_idx, w.batch_idx)}

FileHwf(path) == files[ds.type][FileIndex(files[ds.type], path)].hwf

C2_SplitDirCreatedAndCached ==
    (ds.use_caching /\ ds.enumerated /\ ~ds.pre_split_dir)
        => (ds.dir_at_glob /\ ds.cached)

WrittenNames(d) == {SavePath(w.img_idx, w.batch_idx) : w \in Range(d.written)}

\* C20: after a construction that re-ran cache_dataset() on a split directory
\* that existed before it (override_caching set), the files the dataset
\* enumerates are exactly the files that pass wrote.
C20_CacheRegeneratedWholesale ==
    (ds.state = "ready" /\ ds.use_caching /\ ds.cached
        /\ ds.pre_cache_dir /\ ds.pre_split_dir) =>
        Range(ds.paths) = WrittenNames(ds)

\* A construction that stopped inside cache_dataset().
Aborted(d) ==
    d.state = "failed" /\ d.use_caching /\ d.cached
        /\ d.exc \in {"OSError", "FileNotFoundError"}

FileNames(dir) == {dir[i].name : i \in DOMAIN dir}

\* C21: after a construction that stopped inside cache_dataset() the files it
\* wrote are on disk; a construction with override_caching false does not
\* re-run cache_dataset(), and the next caching-mode construction of that split
\* (one given a DatasetType member) that does not re-run it leaves the files
\* alone and is a dataset serving exactly the files present, its length their
\* number.
C21_PartialCacheServed ==
    /\ [](Aborted(ds) =>
             /\ \A k \in DOMAIN ds.written :
                   LET w == ds.written[k]
                       i == FileIndex(files[ds.type], SavePath(w.img_idx, w.batch_idx))
                   IN i /= 0 /\ files[ds.type][i].ray_bundle = w.ray_bundle
             /\ \A c \in CachingCfgs :
                   ~c.override_caching =>
                       ~NeedsCaching(c, CacheDirCheck(cache_dir_exists, split_dirs,
                                                      ds.type)))
    /\ [][(Aborted(ds) /\ nconstruct' /= nconstruct /\ ds'.use_caching
             /\ ds'.type = ds.type /\ ~ds'.cached
             /\ ds'.exc /= "AssertionError") =>
             /\ files' = files
             /\ ds'.state = "ready"
             /\ Range(ds'.paths) = FileNames(files[ds.type])
             /\ DatasetLen(ds') = Len(files[ds.type])]_cacheVars

\* The items a ready validation dataset serves, item idx being the stored
\* bundle (no sampling on the validation split).
ServedItems(d, fs) == [k \in 1..DatasetLen(d) |-> StoredBundle(d, fs, k - 1)]

\* The in-memory dataset direct mode builds from n source images.
DirectDataset(n, white_background, type) ==
    LET c == [use_caching |-> FALSE, override_caching |-> FALSE, sample_all |-> FALSE,
              num_variations |-> 1, num_random_rays |-> 1,
              white_background |-> white_background, nimg |-> n]
        l == LoadDataset(0, c, type)
    IN [NoDataset EXCEPT !.state = "ready", !.type = type, !.hwf = SourceHwf,
                         !.ray_origins = l.ray_origins,
                         !.ray_directions = l.ray_directions,
                         !.ray_targets = l.ray_targets]

\* Two sequences hold the same elements the same number of times.
SameCollection(a, b) ==
    /\ Len(a) = Len(b)
    /\ \A x \in Range(a) \cup Range(b) :
          Cardinality({k \in DOMAIN a : a[k] = x}) = Cardinality({k \in DOMAIN b : b[k] = x})

\* A validation dataset in caching mode whose construction ran cache_dataset().
CachedValidation ==
    ds.state = "ready" /\ ds.use_caching /\ ds.type = VALIDATION /\ ds.cached

\* C29: the items a validation dataset serves from a cache its construction
\* generated are, up to order, the items direct mode serves for the same
\* source images, with nerf.train.white_background disabled or enabled
\* (cache_dataset() never reads that setting, load_dataset() does).
C29_CachingEqualsDirect ==
    CachedValidation =>
        \A white_background \in BOOLEAN :
            SameCollection(ServedItems(ds, files),
                           ServedItems(DirectDataset(Len(ds.written), white_background,
                                                     VALIDATION), files))

\* BlenderDataset(self.cfg, type = "train") in train_dataloader and
\* BlenderDataset(self.cfg, type = "val") in val_dataloader: bare strings.
TrainDataloaderType == [enum |-> FALSE, value |-> "train"]
ValDataloaderType == [enum |-> FALSE, value |-> "val"]

\* C27: the split argument NeRFModel.train_dataloader and val_dataloader pass
\* to BlenderDataset passes the assertion of CachingDataset.__init__: no
\* construction with one of these arguments ends in AssertionError.
C27_WiringSplitAccepted ==
    \A w \in {TrainDataloaderType, ValDataloaderType} :
        /\ w \in TypeArgs
        /\ (ds.state = "failed" /\ ds.exc = "AssertionError" /\ ds.type = w.value) =>
              TypeAccepted(w)

(***************************************************************************)
(* Mesh extraction tool (mesh_nerf.py).  Paths are sequences of characters. *)
(***************************************************************************)
\* Bounds
MaxRuns == 2

DefaultRes == 128
DefaultLimit == 1

\* batch_size = 160*8*8
batch_size == 160 * 8 * 8

\* The attributes of the namespace parse_args() returns.
ArgFields == {"folder", "limit", "res", "save_dir", "super_sampling", "cache_mesh"}

Resolutions == {8, 80, DefaultRes}
Limits == {DefaultLimit, 2 * DefaultLimit}
SuperSamplings == {0, 8}
SaveDirs == {<<".">>, <<>>, <<"o", "u", "t">>, <<"/", "t", "m", "p", "/">>}

ArgSets ==
    [limit : Limits, res : Resolutions, save_dir : SaveDirs,
     super_sampling : SuperSamplings, cache_mesh : BOOLEAN]

MeshCacheName == <<"m", "e", "s", "h", "_", "c", "a", "c", "h", "e", ".", "n", "p", "y">>
MeshObjName == <<"m", "e", "s", "h", ".", "o", "b", "j">>

\* os.path.join(a, b) on a POSIX system
PathJoin(a, b) ==
    IF Len(b) > 0 /\ b[1] = "/" THEN b
    ELSE IF Len(a) = 0 \/ a[Len(a)] = "/" THEN a \o b
    ELSE a \o <<"/">> \o b

\* os.path.join(args.save_dir, args.save_dir+"mesh_cache.npy")
CacheSavePath(save_dir) == PathJoin(save_dir, save_dir \o MeshCacheName)

\* os.path.join(args.save_dir, "mesh_cache.npy")
CacheLoadPath(save_dir) == PathJoin(save_dir, MeshCacheName)

\* os.path.join(args.save_dir, "mesh.obj")
MeshObjPath(save_dir) == PathJoin(save_dir, MeshObjName)

\* The file a path names: a leading "./" names the working directory again.
RECURSIVE FileKey(_)
FileKey(p) ==
    IF Len(p) >= 2 /\ p[1] = "." /\ p[2] = "/" THEN FileKey(SubSeq(p, 3, Len(p))) ELSE p

Put(f, k, v) == [q \in (DOMAIN f) \cup {k} |-> IF q = k THEN v ELSE f[q]]

\* ray_origins, ray_directions = x
ForwardUnpacks(x) == Len(x) = 2

\* sample_points: the flat list of x*y*z points is reshaped into rows of
\* batch_size points; row idx is queried and its densities fill the slice
\* [idx*batch_size, (idx+1)*batch_size) of the density array.
SamplePoints(shape, bs) ==
    LET total == shape[1] * shape[2] * shape[3]
        fits == total % bs = 0
        nb == total \div bs
    IN [shape |-> shape, total |-> total, ok |-> fits,
        batches |-> IF fits
                    THEN [idx \in 1..nb |->
                            [queried |-> <<(idx - 1) * bs, idx * bs>>,
                             filled |-> <<Min((idx - 1) * bs, total), Min(idx * bs, total)>>]]
                    ELSE <<>>]

\* The three grids of the super-sampling branch.
SuperShapes(N, ss) ==
    << <<N + (N - 1) * ss, N, N>>, <<N, N + (N - 1) * ss, N>>, <<N, N, N + (N - 1) * ss>> >>

\* Calls to sample_points in order, stopping after the first that raises.
RECURSIVE SampleAll(_, _)
SampleAll(shapes, bs) ==
    IF shapes = <<>> THEN <<>>
    ELSE LET c == SamplePoints(Head(shapes), bs)
         IN IF c.ok THEN <<c>> \o SampleAll(Tail(shapes), bs) ELSE <<c>>

\* measure.marching_cubes: vertices in grid-index space [0, N-1]^3, one normal
\* per vertex, triangles of vertex indices.
MarchingCubes(N) ==
    { << <<v>>, << <<0, 0, 0>> >>, << <<0, 0, 1>> >> >> :
          v \in {<<0, 0, 0>>, <<N - 1, 0, 1>>} }

VARIABLES
    folder,          \* what the log folder holds: [hparams, ckpt]
    outfiles,        \* files written so far: path -> content
    args,            \* parsed command line of the current run
    run,             \* position and local variables of the current run
    nruns,           \* runs started
    saved_geometry   \* history: save_dir -> tuple the last caching run saved

meshVars == <<folder, outfiles, args, run, nruns, saved_geometry>>

NoArgs == [limit |-> DefaultLimit, res |-> DefaultRes, save_dir |-> <<".">>,
           super_sampling |-> 0, cache_mesh |-> TRUE]

NoRun == [pc |-> "idle", exc |-> "none", model |-> FALSE, calls |-> <<>>,
          geometry |-> <<>>, wrote |-> {}, loaded |-> FALSE]

Raise(e) == run' = [run EXCEPT !.pc = "raised", !.exc = e]

\* args = parser.parse_args()
Start(a) ==
    /\ run.pc \in {"idle", "raised", "done"}
    /\ nruns < MaxRuns
    /\ args' = a
    /\ run' = [NoRun EXCEPT !.pc = "parsed"]
    /\ nruns' = nruns + 1
    /\ UNCHANGED <<folder, outfiles, saved_geometry>>

\* with (log_folder / "hparams.yaml").open() as f: ...
LoadConfig ==
    /\ run.pc = "parsed"
    /\ IF folder.hparams
       THEN run' = [run EXCEPT !.pc = "config"]
       ELSE Raise("FileNotFoundError")
    /\ UNCHANGED <<folder, outfiles, args, nruns, saved_geometry>>

\* try: next(log_folder.glob('**/*.ckpt'))
\* except: raise FileNotFoundError("...", args.checkpoint)
FindCheckpoint ==
    /\ run.pc = "config"
    /\ IF folder.ckpt
       THEN run' = [run EXCEPT !.pc = "checkpoint"]
       ELSE IF "checkpoint" \in ArgFields
            THEN Raise("FileNotFoundError")
            ELSE Raise("AttributeError")
    /\ UNCHANGED <<folder, outfiles, args, nruns, saved_geometry>>

\* model = NeRFModel.load_from_checkpoint(checkpoint_path, cfg=cfg)
LoadModel ==
    /\ run.pc = "checkpoint"
    /\ run' = [run EXCEPT !.pc = "model", !.model = TRUE]
    /\ UNCHANGED <<folder, outfiles, args, nruns, saved_geometry>>

\* if args.cache_mesh: if args.super_sampling >= 1: ... return
SuperSampling ==
    /\ run.pc = "model" /\ args.cache_mesh /\ args.super_sampling >= 1
    /\ LET calls == SampleAll(SuperShapes(args.res, args.super_sampling), batch_size)
           path == FileKey(MeshObjPath(args.save_dir))
       IN IF \A k \in 1..Len(calls) : calls[k].ok
          THEN \E g \in MarchingCubes(args.res) :
                  /\ outfiles' = Put(outfiles, path,
                                     [kind |-> "obj", vertices |-> g[1],
                                      triangles |-> g[2], colors |-> <<>>, normals |-> <<>>])
                  /\ run' = [run EXCEPT !.pc = "done", !.calls = calls,
                                        !.geometry = g, !.wrote = {path}]
          ELSE /\ run' = [run EXCEPT !.pc = "raised", !.exc = "RuntimeError",
                                     !.calls = calls]
               /\ UNCHANGED outfiles
    /\ UNCHANGED <<folder, args, nruns, saved_geometry>>

\* else: grid_alpha, pts_flat = sample_points(N, ...); measure.marching_cubes(...)
GenerateGeometry ==
    /\ run.pc = "model" /\ args.cache_mesh /\ args.super_sampling < 1
    /\ LET c == SamplePoints(<<args.res, args.res, args.res>>, batch_size)
       IN IF c.ok
          THEN \E g \in MarchingCubes(args.res) :
                  run' = [run EXCEPT !.pc = "geometry", !.calls = <<c>>, !.geometry = g]
          ELSE run' = [run EXCEPT !.pc = "raised", !.exc = "RuntimeError",
                                  !.calls = <<c>>]
    /\ UNCHANGED <<folder, outfiles, args, nruns, saved_geometry>>

\* np.save(os.path.join(args.save_dir, args.save_dir+"mesh_cache.npy"), ...)
SaveCache ==
    /\ run.pc = "geometry"
    /\ LET path == FileKey(CacheSavePath(args.save_dir))
       IN /\ outfiles' = Put(outfiles, path, [kind |-> "npy", tuple |-> run.geometry])
          /\ run' = [run EXCEPT !.pc = "texture", !.wrote = {path}]
    /\ saved_geometry' = Put(saved_geometry, args.save_dir, run.geometry)
    /\ UNCHANGED <<folder, args, nruns>>

\* else: vertices, triangles, normals = np.load(os.path.join(args.save_dir, "mesh_cache.npy"))
LoadCache ==
    /\ run.pc = "model" /\ ~args.cache_mesh
    /\ LET path == FileKey(CacheLoadPath(args.save_dir))
       IN IF path \in DOMAIN outfiles /\ outfiles[path].kind = "npy"
          THEN run' = [run EXCEPT !.pc = "texture", !.geometry = outfiles[path].tuple,
                                  !.loaded = TRUE]
          ELSE Raise("FileNotFoundError")
    /\ UNCHANGED <<folder, outfiles, args, nruns, saved_geometry>>

\* The colour query, model((pos_batch, normal_batch, ray_bounds_batch)) per
\* batch, then export_obj(vertices, triangles, diffuse, normals, ".../mesh.obj").
TextureAndExport ==
    /\ run.pc = "texture"
    /\ LET path == FileKey(MeshObjPath(args.save_dir))
           x == <<"pos_batch", "normal_batch", "ray_bounds_batch">>
       IN IF ForwardUnpacks(x)
          THEN /\ outfiles' = Put(outfiles, path,
                                  [kind |-> "obj", vertices |-> run.geometry[1],
                                   triangles |-> run.geometry[2],
                                   colors |-> [k \in 1..Len(run.geometry[1]) |-> "diffuse"],
                                   normals |-> run.geometry[3]])
               /\ run' = [run EXCEPT !.pc = "done", !.wrote = @ \cup {path}]
          ELSE /\ Raise("ValueError")
               /\ UNCHANGED outfiles
    /\ UNCHANGED <<folder, args, nruns, saved_geometry>>

InitMesh ==
    /\ folder \in [hparams : BOOLEAN, ckpt : BOOLEAN]
    /\ outfiles = <<>>
    /\ args = NoArgs
    /\ run = NoRun
    /\ nruns = 0
    /\ saved_geometry = <<>>

IdleMesh ==
    /\ folder = [hparams |-> FALSE, ckpt |-> FALSE]
    /\ outfiles = <<>>
    /\ args = NoArgs
    /\ run = NoRun
    /\ nruns = 0
    /\ saved_geometry = <<>>

(***************************************************************************)
(* Claims about the mesh tool.                                             *)
(***************************************************************************)
\* A run has gone past the branch that obtains the geometry without caching.
LoadAttempted == run.model /\ ~args.cache_mesh /\ run.pc /= "model"

\* C7: once a caching run has saved the geometry tuple for a save directory, a
\* later --no-cache-mesh run with that save directory loads exactly that tuple:
\* the path the loading branch reads is the path the saving branch wrote.
C7_CacheLoadReadsSavedPath ==
    \A d \in DOMAIN saved_geometry :
        (LoadAttempted /\ args.save_dir = d) =>
            /\ run.loaded
            /\ run.geometry = saved_geometry[d]
            /\ FileKey(CacheLoadPath(d)) = FileKey(CacheSavePath(d))

\* C8: when the folder holds no *.ckpt file the run ends by raising
\* FileNotFoundError, with no model loaded and no output file written.
C8_MissingCheckpointFileNotFound ==
    (~folder.ckpt /\ run.pc \notin {"idle", "parsed", "config"}) =>
        /\ run.pc = "raised"
        /\ run.exc = "FileNotFoundError"
        /\ ~run.model
        /\ run.wrote = {}

\* The batches of one sample_points call cover each of the total points once.
CoversOnce(c) ==
    /\ c.ok
    /\ Len(c.batches) * batch_size = c.total
    /\ \A idx \in 1..Len(c.batches) :
          /\ c.batches[idx].queried = <<(idx - 1) * batch_size, idx * batch_size>>
          /\ c.batches[idx].filled = c.batches[idx].queried

\* C9: every sample_points call the tool makes (the cubic grid of --res points
\* per axis, and the three super-sampled grids) queries each of its x*y*z
\* points exactly once in batches of 10240 and fills every density cell.
C9_GridSamplingCoverage ==
    /\ (run.pc \in {"geometry", "texture", "done"} /\ args.cache_mesh) => run.calls /= <<>>
    /\ \A k \in 1..Len(run.calls) :
          /\ run.calls[k].total = run.calls[k].shape[1] * run.calls[k].shape[2]
                                      * run.calls[k].shape[3]
          /\ CoversOnce(run.calls[k])

InCube(v, L) == \A k \in 1..3 : -L <= v[k] /\ v[k] <= L

\* The run took the branch that ends in export_obj, not the super-sampling one.
StandardPath == ~(args.cache_mesh /\ args.super_sampling >= 1)

Ended == run.model /\ run.pc \in {"done", "raised"}

\* C22: with geometry generation enabled and --super-sampling >= 1 the run
\* writes mesh.obj through the super-sampling routine (uncoloured) and returns
\* without the geometry-cache write; with --super-sampling 0 only the one cubic
\* grid is sampled, the geometry cache is written, and the colour query and
\* export_obj run, so the run returns with a coloured mesh.obj.
C22_BranchExclusivity ==
    (Ended /\ args.cache_mesh) =>
        LET obj == FileKey(MeshObjPath(args.save_dir))
            npy == FileKey(CacheSavePath(args.save_dir))
        IN IF args.super_sampling >= 1
           THEN /\ run.pc = "done"
                /\ run.wrote = {obj}
                /\ outfiles[obj].colors = <<>> /\ outfiles[obj].normals = <<>>
                /\ Len(run.calls) = 3
           ELSE /\ run.pc = "done"
                /\ run.wrote = {npy, obj}
                /\ outfiles[obj].colors /= <<>>
                /\ Len(run.calls) = 1

(***************************************************************************)
(* ColmapDataset and LLFFColmapDataset: rays of all images in one pool.    *)
(***************************************************************************)
\* Bounds
MaxPoolImages == 4
MaxPoolRays == 3

PoolClasses == {"ColmapDataset", "LLFFColmapDataset"}

\* Pixels of one image.
PoolPixels == SourceHwf[1] * SourceHwf[2]

\* imgs.view(-1, 4): one row per pixel of every image, image after image;
\* imgs.view(total_images, -1, 4): one row per image holding its pixels.
PoolRows(kind, nimg, pooled) ==
    IF pooled
    THEN [k \in 1..(nimg * PoolPixels) |->
             <<kind, (k - 1) \div PoolPixels, (k - 1) % PoolPixels>>]
    ELSE [i \in 1..nimg |-> [p \in 1..PoolPixels |-> <<kind, i - 1, p - 1>>]]

\* A faulty variant: the bounds of the first image for every ray.
BoundsRowsGlobal(cls, nimg, R) ==
    IF cls = "LLFFColmapDataset"
    THEN IF R >= 0
         THEN [k \in 1..(nimg * PoolPixels) |-> <<"bds", 0>>]
         ELSE [i \in 1..nimg |-> [p \in 1..PoolPixels |-> <<"bds", 0>>]]
    ELSE [k \in 1..(IF R >= 0 THEN R ELSE PoolPixels) |-> <<"near", "far">>]

\* LLFF: the (near, far) pair of each ray's image, laid out like the rays.
\* Colmap: one (near, far) pair, expanded to the size of one item.
BoundsRows(cls, nimg, R) ==
    IF cls = "LLFFColmapDataset"
    THEN IF R >= 0
         THEN [k \in 1..(nimg * PoolPixels) |-> <<"bds", (k - 1) \div PoolPixels>>]
         ELSE [i \in 1..nimg |-> [p \in 1..PoolPixels |-> <<"bds", i - 1>>]]
    ELSE [k \in 1..(IF R >= 0 THEN R ELSE PoolPixels) |-> <<"near", "far">>]

\* t[shuffled_indices]
Permute(t, perm) == [k \in 1..Len(t) |-> t[perm[k]]]

VARIABLES
    pool,     \* the dataset object
    pitem     \* outcome of the last __getitem__ on it

poolVars == <<pool, pitem>>

NoPool == [state |-> "none", cls |-> "none", num_random_rays |-> 0, shuffle |-> FALSE,
           ray_targets |-> <<>>, all_ray_origins |-> <<>>, all_ray_directions |-> <<>>,
           ray_bounds |-> <<>>, unshuffled |-> <<>>]

NoPoolItem == [status |-> "none", idx |-> 0, ray_origin |-> <<>>, ray_direction |-> <<>>,
               ray_bounds |-> <<>>, ray_target |-> <<>>]

\* __init__ of either class, from the linearisation on.
BuildPool(cls, R, nimg, shuffle) ==
    /\ pool.state = "none"
    /\ \E seed \in (IF shuffle THEN 0..(nimg * PoolPixels - 1) ELSE {0}) :
           LET targets == PoolRows("rgba", nimg, R >= 0)
               perm == IF shuffle THEN ShuffledIndices(seed, Len(targets))
                       ELSE [k \in 1..Len(targets) |-> k]
               bounds == BoundsRows(cls, nimg, R)
           IN /\ pool' = [state |-> "ready", cls |-> cls, num_random_rays |-> R,
                          shuffle |-> shuffle,
                          ray_targets |-> Permute(targets, perm),
                          all_ray_origins |-> Permute(PoolRows("o", nimg, R >= 0), perm),
                          all_ray_directions |-> Permute(PoolRows("d", nimg, R >= 0), perm),
                          ray_bounds |-> IF shuffle /\ cls = "LLFFColmapDataset"
                                         THEN Permute(bounds, perm) ELSE bounds,
                          unshuffled |-> targets]
              /\ pitem' = NoPoolItem

\* A faulty variant: the quotient rounded up.
IntQuotientCeil(a, b) == (a + b - 1) \div b

\* int(a / b) for a >= 0, b > 0
IntQuotient(a, b) == a \div b

\* __len__; a zero num_random_rays divides by zero.
PoolLen(d) ==
    IF d.num_random_rays >= 0
    THEN IF d.num_random_rays = 0
         THEN [ok |-> FALSE, n |-> 0]
         ELSE [ok |-> TRUE, n |-> IntQuotient(Len(d.ray_targets), d.num_random_rays)]
    ELSE [ok |-> TRUE, n |-> Len(d.ray_targets)]

\* __getitem__
PoolGetItem(idx) ==
    /\ pool.state = "ready"
    /\ LET len == PoolLen(pool)
           start == IF pool.num_random_rays >= 0 THEN idx * pool.num_random_rays ELSE idx
           stop == IF pool.num_random_rays >= 0 THEN start + pool.num_random_rays ELSE idx + 1
       IN pitem' =
            IF ~len.ok THEN [NoPoolItem EXCEPT !.status = "ZeroDivisionError", !.idx = idx]
            ELSE IF idx >= len.n THEN [NoPoolItem EXCEPT !.status = "IndexError", !.idx = idx]
            ELSE [status |-> "ok", idx |-> idx,
                  ray_origin |-> Slice(pool.all_ray_origins, start, stop),
                  ray_direction |-> Slice(pool.all_ray_directions, start, stop),
                  ray_bounds |-> IF pool.cls = "LLFFColmapDataset"
                                 THEN Slice(pool.ray_bounds, start, stop)
                                 ELSE pool.ray_bounds,
                  ray_target |-> Slice(pool.ray_targets, start, stop)]
    /\ UNCHANGED pool

InitPool ==
    /\ pool = NoPool
    /\ pitem = NoPoolItem

IdlePool == InitPool

(***************************************************************************)
(* Claims about the pooled datasets.                                       *)
(***************************************************************************)
\* C3: with num_random_rays = R >= 1 and a pool of T rays, the dataset has
\* floor(T/R) items, item i < floor(T/R) is exactly the R consecutive pool rows
\* [i*R, (i+1)*R), and an index at or past floor(T/R) raises IndexError.
C3_PooledIndexing ==
    (pool.state = "ready" /\ pool.num_random_rays >= 1 /\ pitem.status /= "none") =>
        LET R == pool.num_random_rays
            T == Len(pool.ray_targets)
            i == pitem.idx
            rows(t) == [k \in 1..R |-> t[i * R + k]]
        IN /\ PoolLen(pool).ok
           /\ PoolLen(pool).n * R <= T /\ T < (PoolLen(pool).n + 1) * R
           /\ IF (i + 1) * R <= T
              THEN /\ pitem.status = "ok"
                   /\ Len(pitem.ray_origin) = R
                   /\ pitem.ray_origin = rows(pool.all_ray_origins)
                   /\ pitem.ray_direction = rows(pool.all_ray_directions)
                   /\ pitem.ray_target = rows(pool.ray_targets)
              ELSE pitem.status = "IndexError"

C3_Witness ==
    /\ pitem.status = "ok" /\ pitem.idx >= 1
    /\ pool.num_random_rays >= 2 /\ pool.shuffle
    /\ Len(pool.ray_targets) % pool.num_random_rays /= 0

\* The rows of an item, one list per tensor: in per-image mode an item is
\* one image, whose pixels are its rows.
ItemRows(t) == IF pool.num_random_rays >= 0 THEN t ELSE t[1]

\* C25: for an LLFFColmapDataset, pooled or per-image, shuffled or not, every
\* returned item has as many bounds rows as rays, and its k-th bounds row is
\* the (near, far) pair of the image its k-th origin, direction and target
\* rows come from.
C25_PerRayBounds ==
    (pool.state = "ready" /\ pool.cls = "LLFFColmapDataset" /\ pitem.status = "ok") =>
        LET o == ItemRows(pitem.ray_origin)
            d == ItemRows(pitem.ray_direction)
            t == ItemRows(pitem.ray_target)
            b == ItemRows(pitem.ray_bounds)
        IN /\ Len(b) = Len(o) /\ Len(d) = Len(o) /\ Len(t) = Len(o)
           /\ Len(o) >= 1
           /\ \A k \in 1..Len(o) :
                 /\ o[k][1] = "o" /\ d[k][1] = "d" /\ t[k][1] = "rgba"
                 /\ d[k][2] = o[k][2] /\ t[k][2] = o[k][2]
                 /\ b[k] = <<"bds", o[k][2]>>

\* A shuffled pooled item whose rays come from two images.
C25_Witness ==
    /\ pool.state = "ready" /\ pool.cls = "LLFFColmapDataset" /\ pitem.status = "ok"
    /\ pool.shuffle /\ pool.num_random_rays >= 2
    /\ pitem.ray_bounds[1] /= pitem.ray_bounds[2]
    /\ pitem.ray_bounds[1] /= <<"bds", 0>>
    /\ pitem.idx >= 1

(***************************************************************************)
(* flatten_dict / nest_dict (model_nerf.py).  A mapping is the sequence of *)
(* its (key, value) items in insertion order; keys are sequences of        *)
(* characters; a value is a leaf or a mapping.                             *)
(***************************************************************************)
\* Bounds
MaxDepth == 2

Leaf(v) == [leaf |-> TRUE, val |-> v, items |-> <<>>]
Dict(items) == [leaf |-> FALSE, val |-> 0, items |-> items]

Separators == {<<"_">>, <<".">>}
TopKeys == {<<"a">>, <<"a", "_", "b">>, <<"a", ".", "b">>, <<>>}
InnerKeys == {<<"b">>, <<"a", "_", "b">>}

\* Mappings nested at most d deep whose leaves all hold v.
RECURSIVE InnerDicts(_, _)
InnerDicts(d, v) ==
    IF d = 0 THEN {}
    ELSE {Dict(<<>>)} \cup
         {Dict(<< <<k, n>> >>) : k \in InnerKeys, n \in {Leaf(v)} \cup InnerDicts(d - 1, v)}

Nodes(d, v) == {Leaf(v)} \cup InnerDicts(d, v)

\* The configurations tried: up to two top-level entries.
Configs ==
    {Dict(<<>>)}
    \cup {Dict(<< <<k, n>> >>) : k \in TopKeys, n \in Nodes(MaxDepth, 1)}
    \cup {Dict(<< <<k[1], n1>>, <<k[2], n2>> >>) :
              k \in {kk \in TopKeys \X TopKeys : kk[1] /= kk[2]},
              n1 \in Nodes(MaxDepth, 1), n2 \in Nodes(MaxDepth, 2)}

HasKey(items, k) == \E i \in 1..Len(items) : items[i][1] = k
Get(items, k) == items[CHOOSE i \in 1..Len(items) : items[i][1] = k][2]

\* d[k] = v on a dict: an existing key keeps its place.
DictSet(items, k, v) ==
    IF HasKey(items, k)
    THEN [i \in 1..Len(items) |-> IF items[i][1] = k THEN <<k, v>> ELSE items[i]]
    ELSE Append(items, <<k, v>>)

\* dict(items)
RECURSIVE DictOf(_)
DictOf(pairs) ==
    IF pairs = <<>> THEN <<>>
    ELSE LET last == pairs[Len(pairs)]
         IN DictSet(DictOf(SubSeq(pairs, 1, Len(pairs) - 1)), last[1], last[2])

\* flatten_dict(d, parent_key, sep)
RECURSIVE flatten_dict(_, _, _)
RECURSIVE FlattenItems(_, _, _)
FlattenItems(d, parent_key, sep) ==
    IF d = <<>> THEN <<>>
    ELSE LET k == d[1][1]
             v == d[1][2]
             new_key == IF parent_key /= <<>> THEN parent_key \o sep \o k ELSE k
             own == IF ~v.leaf THEN flatten_dict(v.items, new_key, sep)
                    ELSE << <<new_key, v.val>> >>
         IN own \o FlattenItems(Tail(d), parent_key, sep)

flatten_dict(d, parent_key, sep) == DictOf(FlattenItems(d, parent_key, sep))

\* A faulty variant: the key is split at its last separator.
SplitKeyLast(k, sep) ==
    IF \E i \in 1..Len(k) : k[i] = sep[1]
    THEN LET i == CHOOSE j \in 1..Len(k) :
                      k[j] = sep[1] /\ \A m \in (j + 1)..Len(k) : k[m] /= sep[1]
         IN <<SubSeq(k, 1, i - 1), SubSeq(k, i + 1, Len(k))>>
    ELSE <<k>>

\* k.split(sep, 1) for a one-character separator
SplitKey(k, sep) ==
    IF \E i \in 1..Len(k) : k[i] = sep[1]
    THEN LET i == CHOOSE j \in 1..Len(k) :
                      k[j] = sep[1] /\ \A m \in 1..(j - 1) : k[m] /= sep[1]
         IN <<SubSeq(k, 1, i - 1), SubSeq(k, i + 1, Len(k))>>
    ELSE <<k>>

\* _nest_dict_rec(k, v, out, sep); out.setdefault(k, {}) returns the value
\* already stored under k, and a leaf stored there cannot take an item.
RECURSIVE nest_dict_rec(_, _, _, _)
nest_dict_rec(k, v, out, sep) ==
    LET parts == SplitKey(k, sep)
        head == parts[1]
    IN IF Len(parts) = 2
       THEN LET child == IF HasKey(out, head) THEN Get(out, head) ELSE Dict(<<>>)
            IN IF child.leaf THEN [ok |-> FALSE, out |-> out]
               ELSE LET r == nest_dict_rec(parts[2], v, child.items, sep)
                    IN [ok |-> r.ok, out |-> DictSet(out, head, Dict(r.out))]
       ELSE [ok |-> TRUE, out |-> DictSet(out, head, Leaf(v))]

\* nest_dict(flat, sep)
RECURSIVE NestFrom(_, _, _)
NestFrom(flat, result, sep) ==
    IF flat = <<>> THEN [ok |-> TRUE, out |-> result]
    ELSE LET r == nest_dict_rec(flat[1][1], flat[1][2], result, sep)
         IN IF r.ok THEN NestFrom(Tail(flat), r.out, sep) ELSE r

nest_dict(flat, sep) == NestFrom(flat, <<>>, sep)

VARIABLES
    cfg,       \* the nested configuration
    hparams,   \* flatten_dict(cfg, sep = flat_sep)
    flat_sep,
    nested,    \* outcome of nest_dict(hparams, sep = nest_sep)
    nest_sep,
    cpc

cfgVars == <<cfg, hparams, flat_sep, nested, nest_sep, cpc>>

Flatten(sep) ==
    /\ cpc = "cfg"
    /\ hparams' = flatten_dict(cfg.items, <<>>, sep)
    /\ flat_sep' = sep
    /\ cpc' = "flat"
    /\ UNCHANGED <<cfg, nested, nest_sep>>

Nest(sep) ==
    /\ cpc = "flat"
    /\ LET r == nest_dict(hparams, sep)
       IN nested' = [ok |-> r.ok, exc |-> IF r.ok THEN "none" ELSE "TypeError",
                     tree |-> Dict(r.out)]
    /\ nest_sep' = sep
    /\ cpc' = "nested"
    /\ UNCHANGED <<cfg, hparams, flat_sep>>

NoNested == [ok |-> FALSE, exc |-> "none", tree |-> Dict(<<>>)]

InitCfg ==
    /\ cfg \in Configs
    /\ hparams = <<>>
    /\ flat_sep = <<"_">>
    /\ nested = NoNested
    /\ nest_sep = <<"_">>
    /\ cpc = "cfg"

IdleCfg ==
    /\ cfg = Dict(<<>>)
    /\ hparams = <<>>
    /\ flat_sep = <<"_">>
    /\ nested = NoNested
    /\ nest_sep = <<"_">>
    /\ cpc = "cfg"

(***************************************************************************)
(* Claims about the configuration round trip.                              *)
(***************************************************************************)
\* Every key path of a mapping, with what it leads to.
RECURSIVE KeyPaths(_, _)
KeyPaths(items, prefix) ==
    UNION {LET k == items[i][1]
               n == items[i][2]
           IN {[path |-> Append(prefix, k), leaf |-> n.leaf, val |-> n.val]}
                  \cup (IF n.leaf THEN {} ELSE KeyPaths(n.items, Append(prefix, k)))
           : i \in 1..Len(items)}

\* Mappings nested inside one another below the top-level mapping.
RECURSIVE Levels(_)
Levels(items) ==
    LET subs == {i \in 1..Len(items) : ~items[i][2].leaf}
    IN IF subs = {} THEN 0
       ELSE 1 + Levels(items[CHOOSE i \in subs :
                                 \A j \in subs : Levels(items[j][2].items)
                                                    <= Levels(items[i][2].items)][2].items)

SameTree == nested.ok /\ KeyPaths(nested.tree.items, <<>>) = KeyPaths(cfg.items, <<>>)

\* No key is empty or holds the separator, and no sub-mapping is empty.
RoundTripSafe(items, sep) ==
    \A e \in KeyPaths(items, <<>>) :
        LET k == e.path[Len(e.path)]
        IN /\ k /= <<>>
           /\ \A i \in 1..Len(k) : k[i] /= sep[1]
           /\ ~e.leaf => \E f \in KeyPaths(items, <<>>) :
                             /\ Len(f.path) = Len(e.path) + 1
                             /\ SubSeq(f.path, 1, Len(e.path)) = e.path

\* C4 as stated: for every configuration with at least two levels of nesting,
\* nest_dict(flatten_dict(cfg)) with one separator for both calls rebuilds a
\* tree with the key paths and leaf values of cfg.
C4_RoundTripEveryMapping ==
    (cpc = "nested" /\ flat_sep = nest_sep /\ Levels(cfg.items) >= 2) => SameTree

\* C4 amended: the round trip with one separator rebuilds the key paths and
\* leaf values of cfg, at any depth of nesting, when no key of cfg is empty or
\* holds the separator and no sub-mapping of cfg is empty.
C4_RoundTripSeparatorFreeKeys ==
    (cpc = "nested" /\ flat_sep = nest_sep /\ RoundTripSafe(cfg.items, flat_sep)) => SameTree

C4_Witness ==
    /\ cpc = "nested" /\ flat_sep = nest_sep /\ RoundTripSafe(cfg.items, flat_sep)
    /\ Levels(cfg.items) >= 2 /\ Len(cfg.items) = 2
    /\ SameTree

(***************************************************************************)
(* NeRFModel: construction and forward (model_nerf.py).                    *)
(***************************************************************************)
\* Bounds
MaxNumFine == 1
MaxCalls == 2

VARIABLES
    nerf,    \* the NeRFModel object
    fwd      \* the frame of the current call of forward

fwdVars == <<nerf, fwd>>

\* create_models: a fine model is built when cfg.models has a "fine" entry.
CreateModels(models_fine) == [model_coarse |-> TRUE, model_fine |-> models_fine]

NerfModels ==
    {[model_fine |-> CreateModels(f).model_fine,
      training |-> TRUE,
      cfg |-> [train |-> [num_fine |-> nt], validation |-> [num_fine |-> nv]],
      ncalls |-> 0] :
         f \in BOOLEAN, nt \in 0..MaxNumFine, nv \in 0..MaxNumFine}

\* What callers hand to forward: (origins, directions) from training_step,
\* (origins, directions, bounds) from the mesh tool and validation_step.
ForwardInputs ==
    {<<"ray_origins", "ray_directions">>, <<"ray_origins", "ray_directions", "ray_bounds">>}

NoFrame == [pc |-> "idle", x |-> <<>>, training |-> TRUE, id |-> 0, nerf_cfg |-> "none",
            trace |-> <<>>, weights |-> "None", pdf_input |-> "None", exc |-> "none",
            out |-> <<>>]

\* model.train() / model.eval()
SetTraining(b) ==
    /\ fwd.pc \in {"idle", "returned", "raised"}
    /\ nerf.training /= b
    /\ nerf' = [nerf EXCEPT !.training = b]
    /\ UNCHANGED fwd

\* self.forward(x)
ForwardCall(x) ==
    /\ fwd.pc \in {"idle", "returned", "raised"}
    /\ nerf.ncalls < MaxCalls
    /\ nerf' = [nerf EXCEPT !.ncalls = @ + 1]
    /\ fwd' = [NoFrame EXCEPT !.pc = "called", !.x = x, !.training = nerf.training,
                              !.id = nerf.ncalls + 1]

\* if self.model_coarse.training: nerf_cfg = self.cfg.nerf.train else validation
ActiveCfg(training) == IF training THEN "train" ELSE "validation"

\* From the unpacking of x to the coarse volume rendering.
ForwardCoarse ==
    /\ fwd.pc = "called"
    /\ IF ForwardUnpacks(fwd.x)
       THEN fwd' = [fwd EXCEPT !.pc = "coarse",
                               !.nerf_cfg = ActiveCfg(nerf.training),
                               !.trace = <<"sample_interval", "model_coarse", "volume_renderer">>,
                               !.weights = <<"weights", fwd.id>>]
       ELSE fwd' = [fwd EXCEPT !.pc = "raised", !.exc = "ValueError"]
    /\ UNCHANGED nerf

\* A faulty variant: the gate looks at the fine model only.
FineGateModelOnly(num_fine, model_fine) == model_fine

\* if nerf_cfg.num_fine > 0 and self.model_fine
FineGate(num_fine, model_fine) == num_fine > 0 /\ model_fine

\* The fine pass and the return that follows it.
ForwardFine ==
    /\ fwd.pc = "coarse"
    /\ FineGate(nerf.cfg[fwd.nerf_cfg].num_fine, nerf.model_fine)
    /\ fwd' = [fwd EXCEPT !.pc = "returned",
                          !.pdf_input = fwd.weights,
                          !.trace = @ \o <<"sample_pdf", "model_fine", "volume_renderer_fine">>,
                          !.out = <<"rgb_coarse", "disp_coarse", "acc_coarse",
                                    "rgb_fine", "disp_fine", "acc_fine">>]
    /\ UNCHANGED nerf

\* The return without a fine pass.
ForwardCoarseOnly ==
    /\ fwd.pc = "coarse"
    /\ ~FineGate(nerf.cfg[fwd.nerf_cfg].num_fine, nerf.model_fine)
    /\ fwd' = [fwd EXCEPT !.pc = "returned",
                          !.out = <<"rgb_coarse", "disp_coarse", "acc_coarse",
                                    "None", "None", "None">>]
    /\ UNCHANGED nerf

InitFwd ==
    /\ nerf \in NerfModels
    /\ fwd = NoFrame

IdleFwd ==
    /\ nerf = [model_fine |-> FALSE, training |-> TRUE,
               cfg |-> [train |-> [num_fine |-> 0], validation |-> [num_fine |-> 0]],
               ncalls |-> 0]
    /\ fwd = NoFrame

(***************************************************************************)
(* Claims about forward.                                                   *)
(***************************************************************************)
Position(trace, step) == CHOOSE i \in 1..Len(trace) : trace[i] = step
FineSteps == {"sample_pdf", "model_fine", "volume_renderer_fine"}

\* C5: a call of forward that returns has run the fine pass (resampling, fine
\* query, second rendering, in that order, after the coarse rendering of the
\* same call and from its weights) exactly when a fine model exists and
\* num_fine > 0 in nerf.train (coarse model in training mode at the call) or in
\* nerf.validation (otherwise); when it has not, the three fine outputs are None.
C5_FineGatingAndOrder ==
    fwd.pc = "returned" =>
        LET active == IF fwd.training THEN nerf.cfg.train ELSE nerf.cfg.validation
            ran == \E i \in 1..Len(fwd.trace) : fwd.trace[i] \in FineSteps
        IN /\ ran <=> (nerf.model_fine /\ active.num_fine > 0)
           /\ ran =>
                 /\ FineSteps \subseteq Range(fwd.trace)
                 /\ Position(fwd.trace, "volume_renderer") < Position(fwd.trace, "sample_pdf")
                 /\ Position(fwd.trace, "sample_pdf") < Position(fwd.trace, "model_fine")
                 /\ Position(fwd.trace, "model_fine")
                        < Position(fwd.trace, "volume_renderer_fine")
                 /\ fwd.pdf_input = <<"weights", fwd.id>>
                 /\ \A k \in 4..6 : fwd.out[k] /= "None"
           /\ ~ran => \A k \in 4..6 : fwd.out[k] = "None"

\* A second call, made after model.eval(), that ran the fine pass.
C5_Witness ==
    /\ fwd.pc = "returned" /\ ~fwd.training /\ fwd.id = 2
    /\ nerf.cfg.train.num_fine > 0
    /\ "volume_renderer_fine" \in Range(fwd.trace)

(***************************************************************************)
(* export_obj (mesh_nerf.py): the lines written to the .obj file.          *)
(***************************************************************************)
\* Bounds
MaxVerts == 2
MaxTris == 1

VARIABLES
    obj    \* the arguments of export_obj and the file it wrote

objVars == <<obj>>

\* The arrays handed to export_obj: row i of each, 0-based as in the code.
VertexRow(i) == <<<<"x", i>>, <<"y", i>>, <<"z", i>>>>
DiffuseRow(i) == <<<<"r", i>>, <<"g", i>>, <<"b", i>>>>
NormalRow(i) == <<<<"nx", i>>, <<"ny", i>>, <<"nz", i>>>>
Rows(Row(_), n) == [k \in 1..n |-> Row(k - 1)]

\* Triangles: rows of three vertex indices, in or out of the vertex range.
TriangleRows == [1..3 -> 0..MaxVerts]
TriangleArrays == UNION {[1..n -> TriangleRows] : n \in 0..MaxTris}

\* A faulty variant: the indices are written 0-based.
FaceEntryZeroBased(index) == <<index, "//", index>>

\* " {}//{}".format(index + 1, index + 1)
FaceEntry(index) == <<index + 1, "//", index + 1>>

\* "v {} {} {} {} {} {}\n".format(*v, *diffuse[index])
VertexLine(v, colour) == <<"v">> \o v \o colour

\* "vn {} {} {}\n".format(*n)
NormalLine(n) == <<"vn">> \o n

\* "f" followed by one entry per index of the triangle.
FaceLine(f) == <<"f">> \o [k \in 1..Len(f) |-> FaceEntry(f[k])]

NoObj == [status |-> "none", vertices |-> <<>>, triangles |-> <<>>, diffuse |-> <<>>,
          normals |-> <<>>, lines |-> <<>>]

\* export_obj(vertices, triangles, diffuse, normals, filename): the file is
\* opened for writing, the three loops run in turn; diffuse[index] raises
\* IndexError when diffuse is shorter than vertices, and the lines written
\* before it stay in the file.
ExportObj(vertices, triangles, diffuse, normals) ==
    /\ obj.status = "none"
    /\ LET nv == Min(Len(vertices), Len(diffuse))
           complete == Len(diffuse) >= Len(vertices)
           vlines == [k \in 1..nv |-> VertexLine(vertices[k], diffuse[k])]
           nlines == [k \in 1..Len(normals) |-> NormalLine(normals[k])]
           flines == [k \in 1..Len(triangles) |-> FaceLine(triangles[k])]
       IN obj' = [status |-> IF complete THEN "written" ELSE "IndexError",
                  vertices |-> vertices, triangles |-> triangles,
                  diffuse |-> diffuse, normals |-> normals,
                  lines |-> IF complete THEN vlines \o nlines \o flines ELSE vlines]

InitObj == obj = NoObj

IdleObj == obj = NoObj

(***************************************************************************)
(* Claims about export_obj.                                                *)
(***************************************************************************)
\* C11: a completed export holds, in this order, one "v" line per vertex with
\* that vertex's position followed by the colour at the same index, one "vn"
\* line per normal and one "f" line per triangle whose three entries are k//k
\* with k = vertex index + 1; so when every triangle index is in
\* [0, number of vertices) every face index written is in [1, number of vertices].
C11_ObjLayout ==
    obj.status = "written" =>
        LET nv == Len(obj.vertices)
            nn == Len(obj.normals)
            nt == Len(obj.triangles)
        IN /\ Len(obj.lines) = nv + nn + nt
           /\ \A k \in 1..nv :
                 obj.lines[k] = <<"v">> \o obj.vertices[k] \o obj.diffuse[k]
           /\ \A k \in 1..nn : obj.lines[nv + k] = <<"vn">> \o obj.normals[k]
           /\ \A k \in 1..nt :
                 LET line == obj.lines[nv + nn + k]
                 IN /\ Len(line) = 4 /\ line[1] = "f"
                    /\ \A j \in 1..3 :
                          /\ line[j + 1] = <<obj.triangles[k][j] + 1, "//",
                                             obj.triangles[k][j] + 1>>
                          /\ obj.triangles[k][j] \in 0..(nv - 1)
                                 => line[j + 1][1] \in 1..nv

C11_Witness ==
    /\ obj.status = "written"
    /\ Len(obj.vertices) = MaxVerts /\ Len(obj.normals) > 0
    /\ Len(obj.triangles) > 0
    /\ \A j \in 1..3 : obj.triangles[1][j] \in 0..(Len(obj.vertices) - 1)
    /\ obj.triangles[1][1] /= obj.triangles[1][2]

(***************************************************************************)
(* SpecularSimpleModel (nerf/models.py).                                   *)
(***************************************************************************)
\* Bounds
MaxViewLayers == 2
MaxModelCalls == 2

VARIABLES
    smodel,   \* the SpecularSimpleModel object
    scall     \* the outcome of the last call of its forward

specVars == <<smodel, scall>>

NoSpecular == [built |-> FALSE, hidden_layers |-> 0, hidden_layers_view_amount |-> 0,
               has_view_stack |-> FALSE, ncalls |-> 0]

NoSpecularCall == [status |-> "none", id |-> 0, ray_points |-> "none",
                   ray_directions |-> "None", exc |-> "none", result |-> <<>>]

\* What forward may be handed: points, and directions or None (the default).
RayPoints == {"p1", "p2"}
RayDirections == {"None", "d1", "d2"}

\* __init__: hidden_view, specular and combine exist only if hidden_layers_view >= 0.
SpecularInit(hidden_layers, hidden_layers_view) ==
    /\ ~smodel.built
    /\ smodel' = [built |-> TRUE, hidden_layers |-> hidden_layers,
                  hidden_layers_view_amount |-> hidden_layers_view,
                  has_view_stack |-> hidden_layers_view >= 0, ncalls |-> 0]
    /\ UNCHANGED scall

\* if self.hidden_layers_view_amount >= 0 and ray_directions is not None
ViewGate(m, ray_directions) ==
    m.hidden_layers_view_amount >= 0 /\ ray_directions /= "None"

\* forward(ray_points, ray_directions = None): the local `specular` is bound
\* only inside the view branch, and the return statement reads it.
SpecularForward(ray_points, ray_directions) ==
    /\ smodel.built
    /\ smodel.ncalls < MaxModelCalls
    /\ smodel' = [smodel EXCEPT !.ncalls = @ + 1]
    /\ LET depth == <<"depth", ray_points>>
           color == <<"color", ray_points>>
           specular == <<"relu", <<"specular", ray_points, ray_directions>>>>
           combined == <<"combine", color, specular>>
       IN scall' =
            IF ViewGate(smodel, ray_directions)
            THEN [status |-> "returned", id |-> smodel.ncalls + 1,
                  ray_points |-> ray_points, ray_directions |-> ray_directions,
                  exc |-> "none",
                  result |-> <<<<"cat", combined, depth>>, specular>>]
            ELSE [status |-> "raised", id |-> smodel.ncalls + 1,
                  ray_points |-> ray_points, ray_directions |-> ray_directions,
                  exc |-> "UnboundLocalError", result |-> <<>>]

InitSpecular == smodel = NoSpecular /\ scall = NoSpecularCall

IdleSpecular == smodel = NoSpecular /\ scall = NoSpecularCall

(***************************************************************************)
(* Claims about SpecularSimpleModel.                                       *)
(***************************************************************************)
\* C12: every call of forward that its signature permits (ray_directions given
\* or None, hidden_layers_view negative or not) returns a two-element result,
\* the 4-channel colour and depth tensor and the specular channel.
C12_ForwardReturnsPair ==
    scall.status /= "none" =>
        /\ scall.status = "returned"
        /\ Len(scall.result) = 2
        /\ scall.result[1][1] = "cat"

(***************************************************************************)
(* NeRFModel.training_step and validation_step (model_nerf.py), fed with   *)
(* the items of the dataset families the dataloaders wire.                 *)
(***************************************************************************)
\* Bounds
MaxLoss == 2
MaxStepRays == 3
MaxChunk == 2

VARIABLES
    trainer,   \* the NeRFModel and the configuration it was built from
    step       \* the outcome of the last training_step / validation_step

stepVars == <<trainer, step>>

\* cfg.dataset.type and the dataset class train_dataloader / val_dataloader build.
DatasetFamilies ==
    [blender |-> "BlenderDataset", scannet |-> "ScanNetDataset",
     colmap |-> "LLFFColmapDataset"]

\* The tuple each family's __getitem__ returns, by the role of its elements.
DatasetItem(cls) ==
    IF cls = "BlenderDataset"
    THEN <<"ray_origins", "ray_directions", "ray_targets">>
    ELSE <<"ray_origins", "ray_directions", "ray_bounds", "ray_targets">>

\* DataLoader(batch_size = 1) adds a leading dimension to each element,
\* DataLoader(batch_size = None) hands the item over; both keep the tuple.
LoaderBatch(dataset_type) == DatasetItem(DatasetFamilies[dataset_type])

\* get_ray_batch: unpacks exactly three elements and returns three.
GetRayBatch(ray_batch) ==
    IF Len(ray_batch) = 3
    THEN [ok |-> TRUE, value |-> [k \in 1..3 |-> <<"view", ray_batch[k]>>]]
    ELSE [ok |-> FALSE, value |-> <<>>]

\* forward as its callers see it: the unpacking of x, then the colours.
ForwardOutputs(x, training) ==
    IF ~ForwardUnpacks(x)
    THEN [ok |-> FALSE, rgb_coarse |-> "None", rgb_fine |-> "None"]
    ELSE [ok |-> TRUE, rgb_coarse |-> "rgb_coarse",
          rgb_fine |-> IF FineGate(trainer.cfg[ActiveCfg(training)].num_fine,
                                   trainer.model_fine)
                       THEN "rgb_fine" ELSE "None"]

NoStep == [kind |-> "none", status |-> "none", exc |-> "none", ray_batch |-> <<>>,
           training |-> TRUE, rgb_fine |-> "None", coarse_loss |-> 0, fine_loss |-> "None",
           output |-> <<>>, chunks |-> <<>>]

\* A faulty variant: the total is the fine loss alone.
TotalLossFineOnly(coarse_loss, fine_loss) == fine_loss

\* mse_loss = coarse_loss + fine_loss
TotalLoss(coarse_loss, fine_loss) == coarse_loss + fine_loss

\* The output dictionary of training_step: the loss and the log values.
TrainingOutput(rgb_fine, coarse_loss, fine) ==
    LET has_fine == rgb_fine /= "None"
        fine_loss == IF has_fine THEN fine ELSE "None"
        mse_loss == IF has_fine THEN TotalLoss(coarse_loss, fine) ELSE coarse_loss
        loss == IF has_fine THEN mse_loss ELSE coarse_loss
        psnr == IF has_fine THEN <<"mse2psnr", fine>> ELSE <<"mse2psnr", coarse_loss>>
        log_vals == {<<"train/loss", loss>>, <<"train/coarse_loss", coarse_loss>>,
                     <<"train/psnr", psnr>>, <<"train/lr", "lr">>}
        fine_vals == {<<"train/fine_loss", fine_loss>>, <<"train/mse_loss", mse_loss>>}
    IN [loss |-> loss, log |-> IF has_fine THEN log_vals \cup fine_vals ELSE log_vals]

\* training_step(ray_batch, batch_idx); coarse and fine are the values
\* self.loss gives for the two colours.
TrainingStep(training, coarse, fine) ==
    LET ray_batch == LoaderBatch(trainer.dataset_type)
        batch == GetRayBatch(ray_batch)
        base == [NoStep EXCEPT !.kind = "training", !.ray_batch = ray_batch,
                               !.training = training]
    IN /\ UNCHANGED trainer
       /\ IF ~batch.ok
          THEN step' = [base EXCEPT !.status = "raised", !.exc = "ValueError"]
          ELSE LET out == ForwardOutputs(<<batch.value[1], batch.value[2]>>, training)
               IN IF ~out.ok
                  THEN step' = [base EXCEPT !.status = "raised", !.exc = "ValueError"]
                  ELSE step' =
                         [base EXCEPT
                            !.status = "returned", !.rgb_fine = out.rgb_fine,
                            !.coarse_loss = coarse,
                            !.fine_loss = IF out.rgb_fine /= "None" THEN fine ELSE "None",
                            !.output = TrainingOutput(out.rgb_fine, coarse, fine)]

\* range(0, N, batchsize) with the slice i : i + batchsize of each chunk.
Chunks(n, batchsize) ==
    [k \in 1..((n + batchsize - 1) \div batchsize) |->
        <<(k - 1) * batchsize, Min(k * batchsize, n)>>]

\* x / batchcount with batchcount = N / batchsize, as a fraction <<num, den>>.
DivideByBatchcount(x, n, batchsize) == <<x * batchsize, n>>

\* validation_step(image_ray_batch, batch_idx) on an image of n rays; coarse
\* and fine are the values self.loss gives for a chunk.
ValidationStep(training, n, coarse, fine) ==
    LET ray_batch == LoaderBatch(trainer.dataset_type)
        batch == GetRayBatch(ray_batch)
        base == [NoStep EXCEPT !.kind = "validation", !.ray_batch = ray_batch,
                               !.training = training]
        failed == [base EXCEPT !.status = "raised", !.exc = "ValueError"]
    IN /\ UNCHANGED trainer
       /\ IF ~batch.ok
          THEN step' = failed    \* inside get_ray_batch
          ELSE IF Len(batch.value) /= 4
          THEN step' = failed    \* four names bound to what get_ray_batch returns
          ELSE LET batchsize == trainer.cfg.validation.chunksize
                   chunks == Chunks(n, batchsize)
                   out == ForwardOutputs(<<batch.value[1], batch.value[2],
                                           batch.value[3]>>, training)
                   has_fine == out.rgb_fine /= "None"
                   coarse_loss == DivideByBatchcount(Len(chunks) * coarse, n, batchsize)
                   fine_loss == DivideByBatchcount(Len(chunks) * fine, n, batchsize)
               IN IF ~out.ok
                  THEN step' = failed
                  ELSE step' =
                         [base EXCEPT
                            !.status = "returned", !.rgb_fine = out.rgb_fine,
                            !.chunks = chunks,
                            !.coarse_loss = coarse_loss,
                            !.fine_loss = IF has_fine THEN fine_loss ELSE "None",
                            !.output = [coarse_sum |-> Len(chunks) * coarse,
                                        fine_sum |-> Len(chunks) * fine]]

Trainers ==
    {[dataset_type |-> t, model_fine |-> CreateModels(f).model_fine,
      cfg |-> [train |-> [num_fine |-> nt],
               validation |-> [num_fine |-> nv, chunksize |-> c]]] :
         t \in DOMAIN DatasetFamilies, f \in BOOLEAN, nt \in 0..MaxNumFine,
         nv \in 0..MaxNumFine, c \in 1..MaxChunk}

InitStep == trainer \in Trainers /\ step = NoStep

IdleStep ==
    /\ trainer = [dataset_type |-> "blender", model_fine |-> FALSE,
                  cfg |-> [train |-> [num_fine |-> 0],
                           validation |-> [num_fine |-> 0, chunksize |-> 1]]]
    /\ step = NoStep

(***************************************************************************)
(* Claims about the steps.                                                 *)
(***************************************************************************)
\* C13: the item of every dataset family the dataloaders wire is the tuple
\* (ray origins, ray directions, ray bounds, ray targets), and neither step
\* nor forward fails to unpack it.
C13_ItemArityMatchesSteps ==
    step.kind /= "none" =>
        /\ step.ray_batch = <<"ray_origins", "ray_directions", "ray_bounds", "ray_targets">>
        /\ step.exc /= "ValueError"

\* C18: a training_step that returns has loss = coarse + fine when forward
\* gave a fine colour and loss = coarse otherwise, takes the PSNR of the fine
\* loss when there is one and of the coarse loss otherwise, and logs fine_loss
\* and mse_loss exactly when forward gave a fine colour.
C18_TrainingLoss ==
    (step.kind = "training" /\ step.status = "returned") =>
        LET has_fine == step.rgb_fine /= "None"
            keys == {e[1] : e \in step.output.log}
        IN /\ has_fine => step.output.loss = step.coarse_loss + step.fine_loss
           /\ ~has_fine => step.output.loss = step.coarse_loss
           /\ <<"train/psnr", <<"mse2psnr", IF has_fine THEN step.fine_loss
                                            ELSE step.coarse_loss>>>> \in step.output.log
           /\ <<"train/loss", step.output.loss>> \in step.output.log
           /\ <<"train/coarse_loss", step.coarse_loss>> \in step.output.log
           /\ has_fine <=> "train/fine_loss" \in keys
           /\ has_fine <=> "train/mse_loss" \in keys
           /\ has_fine => /\ <<"train/fine_loss", step.fine_loss>> \in step.output.log
                          /\ <<"train/mse_loss", step.output.loss>> \in step.output.log

C18_Witness ==
    /\ step.kind = "training" /\ step.status = "returned"
    /\ step.rgb_fine /= "None"
    /\ step.coarse_loss > 0 /\ step.fine_loss > step.coarse_loss

\* C19: validation_step calls forward once per consecutive chunk of at most C
\* rays, covering every ray exactly once in order, and reports the sum of the
\* per-chunk coarse losses divided by the number of chunks.
C19_ValidationChunking ==
    step.kind = "validation" =>
        /\ step.status = "returned"
        /\ Len(step.chunks) > 0
        /\ step.chunks[1][1] = 0
        /\ \A k \in 1..Len(step.chunks) :
              /\ step.chunks[k][1] < step.chunks[k][2]
              /\ step.chunks[k][2] - step.chunks[k][1] <= trainer.cfg.validation.chunksize
              /\ k < Len(step.chunks) => step.chunks[k + 1][1] = step.chunks[k][2]
        /\ step.coarse_loss[1] * Len(step.chunks)
              = step.output.coarse_sum * step.coarse_loss[2]

(***************************************************************************)
(* ScanNetDataset (data/datasets.py): length and frame selection.          *)
(***************************************************************************)
\* Bounds
MaxFrames == 3
MaxSkip == 2

VARIABLES
    scan,    \* the ScanNetDataset object
    sitem    \* the outcome of the last __getitem__

scanVars == <<scan, sitem>>

\* Python truth of an optional integer argument; None is written 0, which
\* `if skip:` and `elif skip_every:` treat alike.
Truthy(x) == x /= 0

\* A faulty variant: the quotient rounded down.
CeilFloor(a, b) == a \div b

\* math.ceil(a / b) for a >= 0, b > 0
Ceil(a, b) == (a + b - 1) \div b

NoScan == [built |-> FALSE, nframes |-> 0, start |-> 0, stop |-> 0, skip |-> 0,
           skip_every |-> 0, data_len |-> 0]

NoScanItem == [status |-> "none", item |-> 0, frame |-> 0]

\* __init__(data, start, stop, skip, skip_every): self.skip and self.skip_every
\* keep the arguments; `skip_every = None` in the skip branch rebinds the local
\* name only; start is not stored or used.
ScanNetInit(nframes, start, stop, skip, skip_every) ==
    /\ ~scan.built
    /\ LET self_stop == IF stop = -1 THEN nframes ELSE stop
           data_len == IF Truthy(skip) THEN Ceil(self_stop, skip)
                       ELSE IF Truthy(skip_every)
                            THEN self_stop - Ceil(self_stop, skip_every)
                            ELSE nframes
       IN scan' = [built |-> TRUE, nframes |-> nframes, start |-> start,
                   stop |-> self_stop, skip |-> skip, skip_every |-> skip_every,
                   data_len |-> data_len]
    /\ UNCHANGED sitem

\* __len__
ScanNetLen == scan.data_len

\* The index __getitem__ reads self.data.frames at.
FrameIndex(i) ==
    LET skipped == IF Truthy(scan.skip) THEN i * scan.skip ELSE i
    IN IF Truthy(scan.skip_every)
       THEN skipped + ((skipped \div scan.skip_every - 1) + 1)
       ELSE skipped

\* __getitem__(item), i standing for item, for an index the loader draws from range(len(dataset)).
ScanNetGetItem(i) ==
    /\ scan.built
    /\ i < ScanNetLen
    /\ LET f == FrameIndex(i)
       IN sitem' = [status |-> IF f < scan.nframes THEN "ok" ELSE "IndexError",
                    item |-> i, frame |-> f]
    /\ UNCHANGED scan

InitScan == scan = NoScan /\ sitem = NoScanItem

IdleScan == scan = NoScan /\ sitem = NoScanItem

(***************************************************************************)
(* Claims about ScanNetDataset.                                            *)
(***************************************************************************)
\* The least m with m * d >= a.
LeastMultiple(a, d) == CHOOSE m \in 0..a : m * d >= a /\ \A k \in 0..(m - 1) : k * d < a

\* C14: len(dataset) is ceil(stop / skip) when skip is set, stop -
\* ceil(stop / skip_every) when only skip_every is set, and the number of
\* frames otherwise, stop = -1 standing for the number of frames.
C14_ScanNetLength ==
    scan.built =>
        ScanNetLen = IF Truthy(scan.skip) THEN LeastMultiple(scan.stop, scan.skip)
                     ELSE IF Truthy(scan.skip_every)
                          THEN scan.stop - LeastMultiple(scan.stop, scan.skip_every)
                          ELSE scan.nframes

C14_Witness ==
    /\ scan.built /\ scan.skip = 2 /\ scan.stop = 3 /\ ScanNetLen = 2

\* C15: every item index below len(dataset) reads a frame f with
\* start <= f < stop.
C15_FramesWithinRange ==
    sitem.status /= "none" =>
        /\ sitem.status = "ok"
        /\ scan.start <= sitem.frame
        /\ sitem.frame < scan.stop

\* C16: with both skip and skip_every given only skip takes effect: the
\* length is ceil(stop / skip) and item i reads frame i * skip.
C16_SkipOverridesSkipEvery ==
    (scan.built /\ Truthy(scan.skip) /\ Truthy(scan.skip_every)) =>
        /\ ScanNetLen = LeastMultiple(scan.stop, scan.skip)
        /\ sitem.status /= "none" =>
              (sitem.status = "ok" /\ sitem.frame = sitem.item * scan.skip)

\* The frames the items 0..len-1 read.
FramesRead == {FrameIndex(i) : i \in 0..(ScanNetLen - 1)}

\* C23: with skip_every = N and skip unset, the items 0..len-1 read frames in
\* strictly increasing order, all inside [0, stop), and these are exactly the
\* frames of [0, stop) whose index is not a multiple of N, stop - ceil(stop/N)
\* of them; so is the frame of every __getitem__ made.
C23_SkipEveryFrames ==
    (scan.built /\ ~Truthy(scan.skip) /\ Truthy(scan.skip_every)) =>
        /\ \A i, j \in 0..(ScanNetLen - 1) : i < j => FrameIndex(i) < FrameIndex(j)
        /\ FramesRead = {f \in 0..(scan.stop - 1) : f % scan.skip_every /= 0}
        /\ Cardinality(FramesRead) = scan.stop - LeastMultiple(scan.stop, scan.skip_every)
        /\ sitem.status /= "none" =>
              /\ sitem.status = "ok"
              /\ sitem.frame < scan.stop
              /\ sitem.frame % scan.skip_every /= 0

(***************************************************************************)
(* get_rays and the part of ColmapDataset.__init__ that leads to it        *)
(* (data/datasets.py).                                                     *)
(***************************************************************************)
\* Bounds
MaxColmapImages == 3

VARIABLES
    rays,     \* the outcome of the last direct call of get_rays
    colmap    \* the ColmapDataset under construction

raysVars == <<rays, colmap>>

\* Camera models a COLMAP reconstruction may name.
CameraModels == {"SIMPLE_RADIAL", "RADIAL", "SIMPLE_PINHOLE", "PINHOLE", "OPENCV"}

\* A faulty variant: RADIAL is accepted as well.
SupportedCameraRadial(camera_model) == camera_model \in {"SIMPLE_RADIAL", "RADIAL"}

\* if camera_model == "SIMPLE_RADIAL"
SupportedCamera(camera_model) == camera_model = "SIMPLE_RADIAL"

\* get_rays(H, W, camera, poses, camera_model, resolution): one pair of ray
\* tensors per pose, stacked; torch.stack of an empty list raises.
GetRays(poses, camera_model) ==
    IF ~SupportedCamera(camera_model)
    THEN [exc |-> "NotImplementedError", all_ray_directions |-> <<>>,
          all_ray_origins |-> <<>>]
    ELSE IF poses = <<>>
    THEN [exc |-> "RuntimeError", all_ray_directions |-> <<>>, all_ray_origins |-> <<>>]
    ELSE [exc |-> "none",
          all_ray_directions |-> [k \in 1..Len(poses) |-> <<"directions", poses[k]>>],
          all_ray_origins |-> [k \in 1..Len(poses) |-> <<"origins", poses[k]>>]]

NoRays == [called |-> FALSE, camera_model |-> "none", poses |-> <<>>,
           result |-> [exc |-> "none", all_ray_directions |-> <<>>,
                       all_ray_origins |-> <<>>]]

NoColmap == [status |-> "none", exc |-> "none", camera_model |-> "none", images |-> <<>>,
             num_random_rays |-> 0, all_ray_directions |-> <<>>, all_ray_origins |-> <<>>]

\* The poses of n images, named by their position in the reconstruction.
Poses(n) == [k \in 1..n |-> k - 1]

\* A direct call of get_rays.
CallGetRays(nposes, camera_model) ==
    /\ ~rays.called /\ colmap = NoColmap
    /\ rays' = [called |-> TRUE, camera_model |-> camera_model, poses |-> Poses(nposes),
                result |-> GetRays(Poses(nposes), camera_model)]
    /\ UNCHANGED colmap

\* ColmapDataset.__init__ up to the call of get_rays: the first camera of the
\* reconstruction, the images [start:stop] (np.stack raises ValueError when
\* none is left), then get_rays with cam.model.
ColmapInit(nimg, camera_model, start, stop, num_random_rays) ==
    /\ colmap.status = "none" /\ ~rays.called
    /\ LET images == Slice(Poses(nimg), start, stop)
           base == [NoColmap EXCEPT !.camera_model = camera_model, !.images = images,
                                    !.num_random_rays = num_random_rays]
           got == GetRays(images, camera_model)
       IN colmap' =
            IF images = <<>>
            THEN [base EXCEPT !.status = "raised", !.exc = "ValueError"]
            ELSE IF got.exc /= "none"
            THEN [base EXCEPT !.status = "raised", !.exc = got.exc]
            ELSE [base EXCEPT !.status = "ready",
                              !.all_ray_directions = got.all_ray_directions,
                              !.all_ray_origins = got.all_ray_origins]
    /\ UNCHANGED rays

InitRays == rays = NoRays /\ colmap = NoColmap

IdleRays == rays = NoRays /\ colmap = NoColmap

(***************************************************************************)
(* Claims about get_rays.                                                  *)
(***************************************************************************)
\* C17: get_rays raises NotImplementedError and returns no rays for every
\* camera model other than "SIMPLE_RADIAL", and constructing a ColmapDataset
\* whose first camera has another model aborts (with that error whenever the
\* construction gets as far as get_rays).
C17_UnsupportedCameraAborts ==
    /\ (rays.called /\ rays.camera_model /= "SIMPLE_RADIAL") =>
          /\ rays.result.exc = "NotImplementedError"
          /\ rays.result.all_ray_directions = <<>>
          /\ rays.result.all_ray_origins = <<>>
    /\ (colmap.status /= "none" /\ colmap.camera_model /= "SIMPLE_RADIAL") =>
          /\ colmap.status = "raised"
          /\ colmap.images /= <<>> => colmap.exc = "NotImplementedError"
          /\ colmap.all_ray_directions = <<>>

C17_Witness ==
    /\ colmap.status = "raised" /\ colmap.camera_model = "RADIAL"
    /\ Len(colmap.images) > 1 /\ colmap.exc = "NotImplementedError"

(***************************************************************************)
(* The colour query of the mesh tool (mesh_nerf.py): the vertices are      *)
(* passed to the model in batches of batch_size.  A tensor is its number   *)
(* of rows.                                                                *)
(***************************************************************************)
\* Bounds: the vertex counts are m * batch_size + r.
MaxFullBatches == 2
MaxExtraVerts == 18

VARIABLES
    cquery   \* the colour query of one run

colourVars == <<cquery>>

VertexCounts ==
    {m * batch_size + r : m \in 0..MaxFullBatches, r \in 0..MaxExtraVerts}

\* len(t[a:b]) for a tensor of n rows and a, b >= 0.
SliceRows(n, a, b) == Max(Min(b, n) - Min(a, n), 0)

\* range(0, len(targets) // batch_size + 1)
BatchCount(V) == V \div batch_size + 1

\* One pass of the loop body up to the call of the model: the rows of
\* pos_batch, normal_batch and ray_bounds_batch, ray_bounds having batch_size
\* rows.
ColourBatch(V, idx) ==
    LET offset1 == batch_size * idx
        offset2 == Min(batch_size * (idx + 1), V)
    IN [offset1 |-> offset1, offset2 |-> offset2,
        pos_batch |-> SliceRows(V, offset1, offset2),
        normal_batch |-> SliceRows(V, offset1, offset2),
        ray_bounds_batch |-> SliceRows(batch_size, 0, Max(offset2 - offset1, 0))]

\* The batches the loop goes through when no call raises.
ColourBatches(V) == [k \in 1..BatchCount(V) |-> ColourBatch(V, k - 1)]

RECURSIVE SumRows(_)
SumRows(s) == IF s = <<>> THEN 0 ELSE Head(s) + SumRows(Tail(s))

NoQuery == [pc |-> "idle", V |-> 0, passed |-> <<>>, exc |-> "none", diffuse |-> 0]

\* targets = torch.from_numpy(vertices); ray_origins; ray_bounds
PrepareQuery(V) ==
    /\ cquery.pc = "idle"
    /\ cquery' = [NoQuery EXCEPT !.pc = "prepared", !.V = V]

\* for idx in range(...): _, _, _, diffuse, _, _ = model((pos_batch,
\* normal_batch, ray_bounds_batch)); pred.append(diffuse)
\* diffuse = torch.cat(pred, dim=0).numpy()
\* forward unpacks its argument into two names, so the call of the first
\* batch raises ValueError when the argument has three parts.
ColourQuery ==
    /\ cquery.pc = "prepared"
    /\ LET x == <<"pos_batch", "normal_batch", "ray_bounds_batch">>
           all == ColourBatches(cquery.V)
       IN IF ForwardUnpacks(x)
          THEN cquery' = [cquery EXCEPT !.pc = "done", !.passed = all,
                             !.diffuse = SumRows([k \in DOMAIN all |-> all[k].pos_batch])]
          ELSE cquery' = [cquery EXCEPT !.pc = "raised", !.exc = "ValueError",
                             !.passed = SubSeq(all, 1, 1)]

InitColour == cquery = NoQuery

IdleColour == cquery = NoQuery

(***************************************************************************)
(* Claims about the colour query.                                          *)
(***************************************************************************)
\* The batches are consecutive, start at 0 and end at V, and none is empty.
PartitionsVertices(bs, V) ==
    /\ bs /= <<>>
    /\ bs[1].offset1 = 0
    /\ bs[Len(bs)].offset2 = V
    /\ \A k \in DOMAIN bs :
          /\ bs[k].offset1 < bs[k].offset2
          /\ bs[k].offset2 - bs[k].offset1 <= batch_size
          /\ bs[k].pos_batch = bs[k].offset2 - bs[k].offset1
          /\ bs[k].ray_bounds_batch = bs[k].pos_batch
          /\ k > 1 => bs[k].offset1 = bs[k - 1].offset2

\* C24: for every vertex count V >= 1 the colour query passes to the model
\* consecutive batches of at most 10240 vertices that cover [0, V) once, none
\* of them empty, each with a bounds tensor of as many rows, and the
\* concatenated colour array has V rows.
C24_ColourBatching ==
    (cquery.V >= 1 /\ cquery.pc \in {"done", "raised"}) =>
        /\ cquery.pc = "done"
        /\ PartitionsVertices(cquery.passed, cquery.V)
        /\ cquery.diffuse = cquery.V

(***************************************************************************)
(* SimpleModel (nerf/models.py).  The layers are deterministic functions   *)
(* of their weights and input; a tensor is the term that computes it.      *)
(***************************************************************************)
\* Bounds
MaxSimpleCalls == 2
MaxWeightUpdates == 1

VARIABLES
    simple   \* the SimpleModel object and the forward calls made on it

simpleVars == <<simple>>

NoSimple == [built |-> FALSE, hidden_layers_view_amount |-> 0, weights |-> 0,
             calls |-> <<>>]

\* A submodule applied to an input under the weights w.
Layer(name, w, x) == <<name, w, x>>

\* A faulty variant: the depth head reads the activations after the view stack.
DepthInputAfterView(before_view, after_view) == after_view

\* depth = self.depth(x), placed before the view branch rebinds x
DepthInput(before_view, after_view) == before_view

\* __init__(hidden_layers_view = ...)
SimpleInit(hidden_layers_view) ==
    /\ ~simple.built
    /\ simple' = [NoSimple EXCEPT !.built = TRUE,
                                  !.hidden_layers_view_amount = hidden_layers_view]

\* forward(ray_points, ray_directions = None)
SimpleForward(ray_points, ray_directions) ==
    /\ simple.built
    /\ Len(simple.calls) < MaxSimpleCalls
    /\ LET w == simple.weights
           xyz == Layer("encode_xyz", w, ray_points)
           x0 == Layer("hidden_all", w, <<Layer("layer0", w, xyz), xyz>>)
           x1 == IF ViewGate(simple, ray_directions)
                 THEN Layer("hidden_view", w,
                            <<x0, <<"cat", xyz, Layer("encode_dir", w, ray_directions)>>>>)
                 ELSE x0
           depth == Layer("depth", w, DepthInput(x0, x1))
           color == Layer("color", w, x1)
       IN simple' = [simple EXCEPT !.calls =
                        Append(@, [weights |-> w, ray_points |-> ray_points,
                                   ray_directions |-> ray_directions,
                                   color |-> color, depth |-> depth,
                                   result |-> <<"cat", color, depth>>])]

\* An optimizer step in between: the weights change.
SimpleUpdate ==
    /\ simple.built
    /\ simple.weights < MaxWeightUpdates
    /\ simple' = [simple EXCEPT !.weights = @ + 1]

InitSimple == simple = NoSimple

IdleSimple == simple = NoSimple

(***************************************************************************)
(* Claims about SimpleModel.                                               *)
(***************************************************************************)
\* C26: two forward calls of one SimpleModel with the same weights and the
\* same ray_points return the same depth channel, whatever their
\* ray_directions (None included).
C26_DepthViewIndependent ==
    \A i, j \in DOMAIN simple.calls :
        (simple.calls[i].weights = simple.calls[j].weights
             /\ simple.calls[i].ray_points = simple.calls[j].ray_points) =>
            /\ simple.calls[i].depth = simple.calls[j].depth
            /\ simple.calls[i].result[3] = simple.calls[j].result[3]

\* Two calls on the same points under the same weights, one without
\* directions and one with, whose colours differ.
C26_Witness ==
    /\ Len(simple.calls) = 2
    /\ simple.hidden_layers_view_amount >= 0
    /\ simple.calls[1].weights = simple.calls[2].weights
    /\ simple.calls[1].ray_points = simple.calls[2].ray_points
    /\ simple.calls[1].ray_directions = "None"
    /\ simple.calls[2].ray_directions /= "None"
    /\ simple.calls[1].color /= simple.calls[2].color

(***************************************************************************)
(* get_ray_batch (model_nerf.py) on tensors with a shape.  A tensor is     *)
(* [shape, at]: at lists the elements in memory order, element <<kind, k,  *)
(* c>> being channel c of ray k.                                           *)
(***************************************************************************)
\* Bounds
MaxGridSide == 6

VARIABLES
    rbatch   \* a ray batch and what get_ray_batch made of it

batchVars == <<rbatch>>

\* A tensor of n rays with the given channels, under the leading dimensions lead.
RayTensor(kind, lead, n, channels) ==
    [shape |-> lead \o <<channels>>,
     at |-> [e \in 1..(n * channels) |->
                <<kind, (e - 1) \div channels, (e - 1) % channels>>]]

\* t.view(-1, cols): the elements regrouped into rows of cols; fails when the
\* number of elements is no multiple of cols.
View(t, cols) ==
    IF Len(t.at) % cols = 0
    THEN [ok |-> TRUE, shape |-> <<Len(t.at) \div cols, cols>>, at |-> t.at]
    ELSE [ok |-> FALSE, shape |-> <<>>, at |-> <<>>]

\* Row r (from 0) of a two-dimensional tensor.
TensorRow(t, r) == SubSeq(t.at, r * t.shape[2] + 1, (r + 1) * t.shape[2])

NoBatch == [pc |-> "idle", n |-> 0, batch |-> <<>>, exc |-> "none", out |-> <<>>]

\* The item of a dataset as the loader hands it over: origins and directions
\* of 3 channels and RGBA targets, with a leading batch dimension, the rays
\* laid out as a list or as the (H, W) grid of an image.
LoadBatch(H, W, grid) ==
    /\ rbatch.pc = "idle"
    /\ LET n == H * W
           lead == IF grid THEN <<1, H, W>> ELSE <<1, n>>
       IN rbatch' = [NoBatch EXCEPT !.pc = "loaded", !.n = n,
                        !.batch = <<RayTensor("o", lead, n, 3),
                                    RayTensor("d", lead, n, 3),
                                    RayTensor("rgba", lead, n, 4)>>]

\* get_ray_batch(ray_batch): each of the three tensors is viewed as (-1, 3).
CallGetRayBatch ==
    /\ rbatch.pc = "loaded"
    /\ LET ray_origins == View(rbatch.batch[1], 3)
           ray_directions == View(rbatch.batch[2], 3)
           ray_targets == View(rbatch.batch[3], 3)
       IN IF ray_origins.ok /\ ray_directions.ok /\ ray_targets.ok
          THEN rbatch' = [rbatch EXCEPT !.pc = "returned",
                             !.out = <<ray_origins, ray_directions, ray_targets>>]
          ELSE rbatch' = [rbatch EXCEPT !.pc = "raised", !.exc = "RuntimeError"]

InitBatch == rbatch = NoBatch

IdleBatch == rbatch = NoBatch

(***************************************************************************)
(* Claims about get_ray_batch.                                             *)
(***************************************************************************)
\* Row k of a returned tensor holds elements of ray k only.
RowsOfRays(t) ==
    \A r \in 0..(t.shape[1] - 1) :
        \A e \in 1..t.shape[2] : TensorRow(t, r)[e][2] = r

\* C28: for a batch of N rays with RGBA targets get_ray_batch returns origins,
\* directions and targets of exactly N rows each, row k belonging to ray k.
C28_RayCountPreserved ==
    rbatch.pc \in {"returned", "raised"} =>
        /\ rbatch.pc = "returned"
        /\ \A i \in 1..3 :
              /\ rbatch.out[i].shape[1] = rbatch.n
              /\ RowsOfRays(rbatch.out[i])

(***************************************************************************)
(* Specifications: one per subsystem, the others left idle.                *)
(***************************************************************************)

vars ==
    <<cacheVars, meshVars, poolVars, cfgVars, fwdVars,
      objVars, specVars, stepVars, scanVars, raysVars, colourVars, simpleVars, batchVars>>

\* What a step of one subsystem leaves alone.
CacheOnly ==
    UNCHANGED <<meshVars, poolVars, cfgVars, fwdVars,
                objVars, specVars, stepVars, scanVars, raysVars, colourVars, simpleVars, batchVars>>
MeshOnly ==
    UNCHANGED <<cacheVars, poolVars, cfgVars, fwdVars,
                objVars, specVars, stepVars, scanVars, raysVars, colourVars, simpleVars, batchVars>>
PoolOnly ==
    UNCHANGED <<cacheVars, meshVars, cfgVars, fwdVars,
                objVars, specVars, stepVars, scanVars, raysVars, colourVars, simpleVars, batchVars>>
CfgOnly ==
    UNCHANGED <<cacheVars, meshVars, poolVars, fwdVars,
                objVars, specVars, stepVars, scanVars, raysVars, colourVars, simpleVars, batchVars>>
FwdOnly ==
    UNCHANGED <<cacheVars, meshVars, poolVars, cfgVars,
                objVars, specVars, stepVars, scanVars, raysVars, colourVars, simpleVars, batchVars>>
ObjOnly ==
    UNCHANGED <<cacheVars, meshVars, poolVars, cfgVars,
                fwdVars, specVars, stepVars, scanVars, raysVars, colourVars, simpleVars, batchVars>>
SpecularOnly ==
    UNCHANGED <<cacheVars, meshVars, poolVars, cfgVars,
                fwdVars, objVars, stepVars, scanVars, raysVars, colourVars, simpleVars, batchVars>>
StepOnly ==
    UNCHANGED <<cacheVars, meshVars, poolVars, cfgVars,
                fwdVars, objVars, specVars, scanVars, raysVars, colourVars, simpleVars, batchVars>>
ScanOnly ==
    UNCHANGED <<cacheVars, meshVars, poolVars, cfgVars,
                fwdVars, objVars, specVars, stepVars, raysVars, colourVars, simpleVars, batchVars>>
RaysOnly ==
    UNCHANGED <<cacheVars, meshVars, poolVars, cfgVars,
                fwdVars, objVars, specVars, stepVars, scanVars, colourVars, simpleVars, batchVars>>
ColourOnly ==
    UNCHANGED <<cacheVars, meshVars, poolVars, cfgVars,
                fwdVars, objVars, specVars, stepVars, scanVars, raysVars, simpleVars, batchVars>>
SimpleOnly ==
    UNCHANGED <<cacheVars, meshVars, poolVars, cfgVars,
                fwdVars, objVars, specVars, stepVars, scanVars, raysVars, colourVars, batchVars>>
BatchOnly ==
    UNCHANGED <<cacheVars, meshVars, poolVars, cfgVars,
                fwdVars, objVars, specVars, stepVars, scanVars, raysVars, colourVars, simpleVars>>

NextCache ==
    \/ \E targ \in TypeArgs, c \in Cfgs : Construct(targ, c) /\ CacheOnly
    \/ \E targ \in TypeArgs, c \in CachingCfgs :
          ConstructInterrupted(targ, c) /\ CacheOnly
    \/ \E idx \in 0..(MaxImages * MaxVariations) : GetItem(idx) /\ CacheOnly

NextMesh ==
    \/ \E a \in ArgSets : Start(a) /\ MeshOnly
    \/ LoadConfig /\ MeshOnly
    \/ FindCheckpoint /\ MeshOnly
    \/ LoadModel /\ MeshOnly
    \/ SuperSampling /\ MeshOnly
    \/ GenerateGeometry /\ MeshOnly
    \/ SaveCache /\ MeshOnly
    \/ LoadCache /\ MeshOnly
    \/ TextureAndExport /\ MeshOnly

NextPool ==
    \/ \E cls \in PoolClasses, R \in -1..MaxPoolRays, nimg \in 1..MaxPoolImages,
          shuffle \in BOOLEAN : BuildPool(cls, R, nimg, shuffle) /\ PoolOnly
    \/ \E idx \in 0..(MaxPoolImages * PoolPixels) : PoolGetItem(idx) /\ PoolOnly

NextCfg ==
    \/ \E sep \in Separators : Flatten(sep) /\ CfgOnly
    \/ \E sep \in Separators : Nest(sep) /\ CfgOnly

NextFwd ==
    \/ \E b \in BOOLEAN : SetTraining(b) /\ FwdOnly
    \/ \E x \in ForwardInputs : ForwardCall(x) /\ FwdOnly
    \/ ForwardCoarse /\ FwdOnly
    \/ ForwardFine /\ FwdOnly
    \/ ForwardCoarseOnly /\ FwdOnly

NextObj ==
    \/ /\ obj.status = "none"
       /\ \E nv \in 0..MaxVerts, nd \in 0..MaxVerts, nn \in 0..MaxVerts,
             triangles \in TriangleArrays :
             ExportObj(Rows(VertexRow, nv), triangles, Rows(DiffuseRow, nd),
                       Rows(NormalRow, nn)) /\ ObjOnly

NextSpecular ==
    \/ \E hl \in 0..MaxViewLayers, hlv \in -1..MaxViewLayers :
          SpecularInit(hl, hlv) /\ SpecularOnly
    \/ \E p \in RayPoints, d \in RayDirections : SpecularForward(p, d) /\ SpecularOnly

NextStep ==
    \/ \E training \in BOOLEAN, coarse \in 0..MaxLoss, fine \in 0..MaxLoss :
          TrainingStep(training, coarse, fine) /\ StepOnly
    \/ \E training \in BOOLEAN, n \in 1..MaxStepRays, coarse \in 0..MaxLoss,
          fine \in 0..MaxLoss : ValidationStep(training, n, coarse, fine) /\ StepOnly

NextScan ==
    \/ \E nframes \in 1..MaxFrames, start \in 0..(MaxFrames - 1),
          stop \in {-1} \cup 0..(MaxFrames + 1),
          skip \in 0..MaxSkip, skip_every \in 0..MaxSkip :
             ScanNetInit(nframes, start, stop, skip, skip_every) /\ ScanOnly
    \/ \E i \in 0..MaxFrames : ScanNetGetItem(i) /\ ScanOnly

NextRays ==
    \/ \E nposes \in 0..MaxColmapImages, camera_model \in CameraModels :
          CallGetRays(nposes, camera_model) /\ RaysOnly
    \/ \E nimg \in 0..MaxColmapImages, camera_model \in CameraModels,
          start \in 0..1, stop \in 0..MaxColmapImages,
          num_random_rays \in -1..MaxPoolRays :
             ColmapInit(nimg, camera_model, start, stop, num_random_rays) /\ RaysOnly

NextColour ==
    \/ \E V \in VertexCounts : PrepareQuery(V) /\ ColourOnly
    \/ ColourQuery /\ ColourOnly

NextSimple ==
    \/ \E hidden_layers_view \in -1..MaxViewLayers : SimpleInit(hidden_layers_view) /\ SimpleOnly
    \/ \E ray_points \in RayPoints, ray_directions \in RayDirections :
          SimpleForward(ray_points, ray_directions) /\ SimpleOnly
    \/ SimpleUpdate /\ SimpleOnly

NextBatch ==
    \/ \E H \in 1..MaxGridSide, W \in 1..MaxGridSide, grid \in BOOLEAN :
          LoadBatch(H, W, grid) /\ BatchOnly
    \/ CallGetRayBatch /\ BatchOnly

\* The initial states when only this subsystem runs.
StartCache ==
    /\ InitCache
    /\ IdleMesh
    /\ IdlePool
    /\ IdleCfg
    /\ IdleFwd
    /\ IdleObj
    /\ IdleSpecular
    /\ IdleStep
    /\ IdleScan
    /\ IdleRays
    /\ IdleColour
    /\ IdleSimple
    /\ IdleBatch

SpecCache == StartCache /\ [][NextCache]_vars

\* The initial states when only this subsystem runs.
StartMesh ==
    /\ InitMesh
    /\ IdleCache
    /\ IdlePool
    /\ IdleCfg
    /\ IdleFwd
    /\ IdleObj
    /\ IdleSpecular
    /\ IdleStep
    /\ IdleScan
    /\ IdleRays
    /\ IdleColour
    /\ IdleSimple
    /\ IdleBatch

SpecMesh == StartMesh /\ [][NextMesh]_vars

\* The initial states when only this subsystem runs.
StartPool ==
    /\ InitPool
    /\ IdleCache
    /\ IdleMesh
    /\ IdleCfg
    /\ IdleFwd
    /\ IdleObj
    /\ IdleSpecular
    /\ IdleStep
    /\ IdleScan
    /\ IdleRays
    /\ IdleColour
    /\ IdleSimple
    /\ IdleBatch

SpecPool == StartPool /\ [][NextPool]_vars

\* The initial states when only this subsystem runs.
StartCfg ==
    /\ InitCfg
    /\ IdleCache
    /\ IdleMesh
    /\ IdlePool
    /\ IdleFwd
    /\ IdleObj
    /\ IdleSpecular
    /\ IdleStep
    /\ IdleScan
    /\ IdleRays
    /\ IdleColour
    /\ IdleSimple
    /\ IdleBatch

SpecCfg == StartCfg /\ [][NextCfg]_vars

\* The initial states when only this subsystem runs.
StartFwd ==
    /\ InitFwd
    /\ IdleCache
    /\ IdleMesh
    /\ IdlePool
    /\ IdleCfg
    /\ IdleObj
    /\ IdleSpecular
    /\ IdleStep
    /\ IdleScan
    /\ IdleRays
    /\ IdleColour
    /\ IdleSimple
    /\ IdleBatch

SpecFwd == StartFwd /\ [][NextFwd]_vars

\* The initial states when only this subsystem runs.
StartObj ==
    /\ InitObj
    /\ IdleCache
    /\ IdleMesh
    /\ IdlePool
    /\ IdleCfg
    /\ IdleFwd
    /\ IdleSpecular
    /\ IdleStep
    /\ IdleScan
    /\ IdleRays
    /\ IdleColour
    /\ IdleSimple
    /\ IdleBatch

SpecObj == StartObj /\ [][NextObj]_vars

\* The initial states when only this subsystem runs.
StartSpecular ==
    /\ InitSpecular
    /\ IdleCache
    /\ IdleMesh
    /\ IdlePool
    /\ IdleCfg
    /\ IdleFwd
    /\ IdleObj
    /\ IdleStep
    /\ IdleScan
    /\ IdleRays
    /\ IdleColour
    /\ IdleSimple
    /\ IdleBatch

SpecSpecular == StartSpecular /\ [][NextSpecular]_vars

\* The initial states when only this subsystem runs.
StartStep ==
    /\ InitStep
    /\ IdleCache
    /\ IdleMesh
    /\ IdlePool
    /\ IdleCfg
    /\ IdleFwd
    /\ IdleObj
    /\ IdleSpecular
    /\ IdleScan
    /\ IdleRays
    /\ IdleColour
    /\ IdleSimple
    /\ IdleBatch

SpecStep == StartStep /\ [][NextStep]_vars

\* The initial states when only this subsystem runs.
StartScan ==
    /\ InitScan
    /\ IdleCache
    /\ IdleMesh
    /\ IdlePool
    /\ IdleCfg
    /\ IdleFwd
    /\ IdleObj
    /\ IdleSpecular
    /\ IdleStep
    /\ IdleRays
    /\ IdleColour
    /\ IdleSimple
    /\ IdleBatch

SpecScan == StartScan /\ [][NextScan]_vars

\* The initial states when only this subsystem runs.
StartRays ==
    /\ InitRays
    /\ IdleCache
    /\ IdleMesh
    /\ IdlePool
    /\ IdleCfg
    /\ IdleFwd
    /\ IdleObj
    /\ IdleSpecular
    /\ IdleStep
    /\ IdleScan
    /\ IdleColour
    /\ IdleSimple
    /\ IdleBatch

SpecRays == StartRays /\ [][NextRays]_vars

\* The initial states when only this subsystem runs.
StartColour ==
    /\ InitColour
    /\ IdleCache
    /\ IdleMesh
    /\ IdlePool
    /\ IdleCfg
    /\ IdleFwd
    /\ IdleObj
    /\ IdleSpecular
    /\ IdleStep
    /\ IdleScan
    /\ IdleRays
    /\ IdleSimple
    /\ IdleBatch

SpecColour == StartColour /\ [][NextColour]_vars

\* The initial states when only this subsystem runs.
StartSimple ==
    /\ InitSimple
    /\ IdleCache
    /\ IdleMesh
    /\ IdlePool
    /\ IdleCfg
    /\ IdleFwd
    /\ IdleObj
    /\ IdleSpecular
    /\ IdleStep
    /\ IdleScan
    /\ IdleRays
    /\ IdleColour
    /\ IdleBatch

SpecSimple == StartSimple /\ [][NextSimple]_vars

\* The initial states when only this subsystem runs.
StartBatch ==
    /\ InitBatch
    /\ IdleCache
    /\ IdleMesh
    /\ IdlePool
    /\ IdleCfg
    /\ IdleFwd
    /\ IdleObj
    /\ IdleSpecular
    /\ IdleStep
    /\ IdleScan
    /\ IdleRays
    /\ IdleColour
    /\ IdleSimple

SpecBatch == StartBatch /\ [][NextBatch]_vars

====
